---- MODULE Spec2Model ----
(***************************************************************************)
(* Model of the GFB extraction pipeline:                                   *)
(*   - build_config.py : clean_text, find_text_in_sheet (the Row Resolver), *)
(*                       find_date_row, create_measure_definitions,        *)
(*                       build_config, save_config                         *)
(*   - map.py          : format_number, extract_gfb_data (the extractor),   *)
(*                       the batch loop of __main__                        *)
(*                                                                         *)
(* Text is a sequence of symbols (a word, a blank " " or a punctuation     *)
(* mark); matching never splits a symbol.  Row and column indices are      *)
(* 0-based as in the source; Iloc translates to the 1-based sequences.     *)
(***************************************************************************)
EXTENDS Integers, Sequences, FiniteSets, TLC

VARIABLES
    \* ---- find_text_in_sheet and find_date_row (build_config.py) ----
    df,               \* the sheet searched: sequence of rows of cells
    search_patterns,  \* list of patterns
    start_row,        \* first row scanned
    parent_section,   \* required ancestor text, <<>> when not given
    row_idx,          \* loop variable of the forward scan
    result,           \* returned row index, None when not found
    tested,           \* rows the scan has read, in order
    rpc,              \* "scan" / "dates" while a loop runs, "done" after return
    \* ---- extract_gfb_data (map.py) ----
    borrowing_df,     \* sheet rpgBorrowing
    redemptions_df,   \* sheet rpgRedemptions
    gfb_config,       \* gfb_config.json: the document save_config wrote (build
                      \* runs), the rows it stores (extraction runs)
    dates,            \* period labels
    borrowing_data,   \* one row of values per borrowing measure
    redemption_data,  \* one row of values per redemption measure
    output_data,      \* header rows and data rows before formatting
    formatted_data,   \* the output table
    epc,              \* position in extract_gfb_data
    \* ---- build_config, save_config (build_config.py) ----
    borrowing_date_row,   \* find_date_row(borrowing_df)
    redemption_date_row,  \* find_date_row(redemption_df)
    measure_pos,          \* position of the loop in the catalog, 1-based
    borrowing_mappings,   \* entries appended for the borrowing sheet
    redemption_mappings,  \* entries appended for the redemption sheet
    config,               \* the Mapping build_config returns
    summary,              \* the found / total counts the summary prints
    clock,                \* datetime.now()
    history,              \* per finished run: the Mapping and the saved document
    bpc,                  \* position in build_config
    \* ---- __main__ of map.py ----
    excel_files,      \* the files find_excel_files returned
    file_idx,         \* position of the loop in excel_files, 1-based
    processed_files,  \* output names of the files that were extracted
    attempted,        \* files handed to extract_gfb_data, in order
    exit_code,        \* None while running or after a normal end, 1 after exit(1)
    report,           \* the counts of the final report: processed, out of
    mpc,              \* position in __main__
    \* ---- main of orchestrator.py ----
    args,               \* the parsed command line
    outcome,            \* what each script returns when it is run
    success,            \* the success flag of main
    universal_success,  \* the return value of the universal extraction
    started,            \* the steps started so far, in order
    status,             \* None while running or after a normal end, 1 after sys.exit(1)
    opc,                \* position in main
    \* ---- download_excel_from_website (main.py) ----
    buttons,            \* the candidates the four strategies collected
    download_buttons,   \* find_excel_download_buttons(driver, search_keywords)
    button_idx,         \* position of the loop in download_buttons, 1-based
    tried,              \* candidates handed to attempt_download, in order
    download_result,    \* the return value: a path or None
    dpc                 \* position in download_excel_from_website

rvars == <<df, search_patterns, start_row, parent_section, row_idx, result, tested, rpc>>

evars == <<borrowing_df, redemptions_df, gfb_config, dates, borrowing_data,
           redemption_data, output_data, formatted_data, epc>>

bvars == <<borrowing_date_row, redemption_date_row, measure_pos, borrowing_mappings,
           redemption_mappings, config, summary, clock, history, bpc>>

mvars == <<excel_files, file_idx, processed_files, attempted, exit_code, report, mpc>>

ovars == <<args, outcome, success, universal_success, started, status, opc>>

dvars == <<buttons, download_buttons, button_idx, tried, download_result, dpc>>

vars == <<rvars, evars, bvars, mvars, ovars, dvars>>

\* ------------------------------------------------------------------------
\* Bounds of the model
\* ------------------------------------------------------------------------
MaxRows == 18      \* rows of a sheet handed to the Row Resolver
MaxStart == 2      \* largest start_row drawn
MaxSheetRows == 103 \* rows of the largest sheet handed to the extractor
MaxDateCols == 3   \* columns to the right of the label column
MaxSeed == 1       \* fillings of the value cells
MaxShift == 1      \* rows by which the labels drift between revisions
MaxScanRows == 22  \* rows of the largest sheet handed to the Date Axis Locator
MaxRuns == 2       \* runs of the Mapping Builder on one file
MaxFiles == 4      \* files of a batch
MaxScanCols == 12  \* columns of the widest sheet handed to the Date Axis Locator

\* Python's None for a row index
None == -1

\* ------------------------------------------------------------------------
\* Cells and text
\* ------------------------------------------------------------------------
\* A cell: k = "nan" (empty), "str" (text s), "int" (n), "float" (n + f/10),
\* "dt" (a datetime, n = month number of the year 2024).
NaN == [k |-> "nan", s |-> <<>>, n |-> 0, f |-> 0]
Str(t) == [k |-> "str", s |-> t, n |-> 0, f |-> 0]
IntCell(i) == [k |-> "int", s |-> <<>>, n |-> i, f |-> 0]
FloatCell(i, tenths) == [k |-> "float", s |-> <<>>, n |-> i, f |-> tenths]
DateTime(m) == [k |-> "dt", s |-> <<>>, n |-> m, f |-> 0]

Iloc(d, r, c) == d[r + 1][c + 1]

Max2(a, b) == IF a >= b THEN a ELSE b
Min2(a, b) == IF a <= b THEN a ELSE b

\* str.lower() / re.IGNORECASE on one symbol
Lower(c) ==
    CASE c \in {"Federal", "FEDERAL"} -> "federal"
      [] c \in {"Bonds", "BONDS"} -> "bonds"
      [] c \in {"Budget", "BUDGET"} -> "budget"
      [] c \in {"Own", "OWN"} -> "own"
      [] c \in {"Holdings", "HOLDINGS"} -> "holdings"
      [] c \in {"Bundesanleihen", "BUNDESANLEIHEN"} -> "bundesanleihen"
      [] c \in {"Bundeshaushalt", "BUNDESHAUSHALT"} -> "bundeshaushalt"
      [] c \in {"Breakdown", "BREAKDOWN"} -> "breakdown"
      [] c \in {"Total", "TOTAL"} -> "total"
      [] OTHER -> c

LowerText(t) == [i \in 1..Len(t) |-> Lower(t[i])]

RECURSIVE LStrip(_)
LStrip(t) == IF t # <<>> /\ Head(t) = " " THEN LStrip(Tail(t)) ELSE t

RECURSIVE RStrip(_)
RStrip(t) ==
    IF t # <<>> /\ t[Len(t)] = " " THEN RStrip(SubSeq(t, 1, Len(t) - 1)) ELSE t

\* str.strip()
Strip(t) == RStrip(LStrip(t))

MonthSym == <<"01", "02", "03", "04", "05", "06", "07", "08", "09", "10", "11", "12">>
MonthName == <<"Jan", "Feb", "Mar", "Apr", "May", "Jun", "Jul", "Aug", "Sep", "Oct", "Nov", "Dec">>

\* str(value) of a cell; a number is one symbol that holds no date
StrOf(cell) ==
    CASE cell.k = "str" -> cell.s
      [] cell.k = "int" -> <<"#num">>
      [] cell.k = "float" -> <<"#num">>
      [] cell.k = "dt" ->
             <<"2024", "-", MonthSym[cell.n], "-", "01", " ", "00", ":", "00", ":", "00">>
      [] OTHER -> <<"nan">>

\* clean_text: "" for NaN/None, else str(text).strip()
clean_text(cell) == IF cell.k = "nan" THEN <<>> ELSE Strip(StrOf(cell))

\* `a in b` on strings: a occurs in b as a contiguous run
Contains(b, a) ==
    \E i \in 1..(Len(b) - Len(a) + 1) : SubSeq(b, i, i + Len(a) - 1) = a

\* A pattern is [start, body, rest, end]: body is literal text, rest the
\* literal texts that follow it, each behind a ".*"; start stands for a
\* leading "^" or "^\s*" and end for a trailing "$" or "\s*$".
PatSeq(st, body, rest, en) == [start |-> st, body |-> body, rest |-> rest, end |-> en]

Pat(st, body, en) == PatSeq(st, body, <<>>, en)

\* index of the first occurrence of a in b at or after position from, 0 if none
Find(b, a, from) ==
    LET at == {i \in from..(Len(b) - Len(a) + 1) : SubSeq(b, i, i + Len(a) - 1) = a}
    IN  IF at = {} THEN 0 ELSE CHOOSE i \in at : \A j \in at : i <= j

\* the texts of rest occur in t in this order, from position from on
RECURSIVE RestFollows(_, _, _)
RestFollows(t, rest, from) ==
    IF rest = <<>> THEN TRUE
    ELSE LET i == Find(t, Head(rest), from)
         IN  i # 0 /\ RestFollows(t, Tail(rest), i + Len(Head(rest)))

\* re.search(pattern, text, re.IGNORECASE)
re_search(pattern, text) ==
    LET b == LowerText(pattern.body)
        t == LowerText(text)
    IN  CASE pattern.rest # <<>> ->
                 LET u == IF pattern.start THEN LStrip(t) ELSE t
                     i == IF pattern.start
                          THEN (IF Len(u) >= Len(b) /\ SubSeq(u, 1, Len(b)) = b THEN 1 ELSE 0)
                          ELSE Find(u, b, 1)
                     r == [k \in 1..Len(pattern.rest) |-> LowerText(pattern.rest[k])]
                 IN  i # 0 /\ RestFollows(u, r, i + Len(b))
          [] pattern.start /\ pattern.end -> Strip(t) = b
          [] pattern.start /\ ~pattern.end ->
                 LET u == LStrip(t) IN Len(u) >= Len(b) /\ SubSeq(u, 1, Len(b)) = b
          [] ~pattern.start /\ pattern.end ->
                 LET u == RStrip(t)
                 IN  Len(u) >= Len(b) /\ SubSeq(u, Len(u) - Len(b) + 1, Len(u)) = b
          [] OTHER -> Contains(t, b)

\* ------------------------------------------------------------------------
\* find_text_in_sheet (build_config.py): the Row Resolver
\* ------------------------------------------------------------------------
\* end_row is never passed by a caller: it defaults to len(df)
EndRow(d) == Len(d)

\* range(start_row, min(end_row, len(df))) stops here
ScanEnd(d) == Min2(EndRow(d), Len(d))

\* variant: only the first pattern of the list is tried
AnyPatternMatches_FirstOnly(patterns, cell_value) ==
    Len(patterns) >= 1 /\ re_search(patterns[1], cell_value)

\* some pattern of the list matches the label (the inner for loop)
AnyPatternMatches(patterns, cell_value) ==
    \E i \in 1..Len(patterns) : re_search(patterns[i], cell_value)

\* variant: the window is not cut at start_row
LookbackStop_PastStart(r, start) == Max2(r - 16, -1)

\* variant: a window of 16 rows
LookbackStop_Wide(r, start) == Max2(Max2(start - 1, r - 17), -1)

\* exclusive lower end of range(row_idx - 1, max(start_row - 1, row_idx - 16, -1), -1)
LookbackStop(r, start) == Max2(Max2(start - 1, r - 16), -1)

\* the row indices the lookback loop may read
LookbackRows(r, start) == (LookbackStop(r, start) + 1)..(r - 1)

\* variant: only the row right above is inspected
ParentFound_PreviousRowOnly(d, r, start, parent) ==
    /\ r - 1 >= start
    /\ r - 1 >= 0
    /\ Contains(LowerText(clean_text(Iloc(d, r - 1, 0))), LowerText(parent))

\* the lookback loop: parent_found
ParentFound(d, r, start, parent) ==
    \E prev_idx \in LookbackRows(r, start) :
        LET prev_value == clean_text(Iloc(d, prev_idx, 0))
        IN  prev_value # <<>> /\ Contains(LowerText(prev_value), LowerText(parent))

\* the loop body returns row r (lines 43-68)
RowReturns(d, patterns, start, parent, r) ==
    LET label == clean_text(Iloc(d, r, 0))
    IN  /\ label # <<>>
        /\ AnyPatternMatches(patterns, label)
        /\ parent # <<>> => ParentFound(d, r, start, parent)

\* the for loop with its early return: the first row of the range at which
\* the body returns, None when the range is exhausted
find_text_in_sheet(d, patterns, start, parent) ==
    LET returning == {r \in start..(ScanEnd(d) - 1) : RowReturns(d, patterns, start, parent, r)}
    IN  IF returning = {} THEN None
        ELSE CHOOSE r \in returning : \A q \in returning : r <= q

\* ---- the same scan, one loop iteration per step ----
cell_value == clean_text(Iloc(df, row_idx, 0))

Scanning == rpc = "scan" /\ row_idx < ScanEnd(df)

NextRow ==
    /\ row_idx' = row_idx + 1
    /\ tested' = Append(tested, row_idx)
    /\ UNCHANGED <<df, search_patterns, start_row, parent_section, result, rpc>>
    /\ UNCHANGED <<evars, bvars, mvars, ovars, dvars>>

ReturnRow ==
    /\ result' = row_idx
    /\ rpc' = "done"
    /\ tested' = Append(tested, row_idx)
    /\ UNCHANGED <<df, search_patterns, start_row, parent_section, row_idx>>
    /\ UNCHANGED <<evars, bvars, mvars, ovars, dvars>>

\* line 45: empty label, continue
SkipEmpty ==
    /\ Scanning
    /\ cell_value = <<>>
    /\ NextRow

\* lines 49-50: no pattern of the list matches
NoPatternMatch ==
    /\ Scanning
    /\ cell_value # <<>>
    /\ ~AnyPatternMatches(search_patterns, cell_value)
    /\ NextRow

\* lines 66-68: a pattern matches and no parent section is required
MatchNoParent ==
    /\ Scanning
    /\ cell_value # <<>>
    /\ AnyPatternMatches(search_patterns, cell_value)
    /\ parent_section = <<>>
    /\ ReturnRow

\* lines 52-62: a pattern matches and the parent section is found above
MatchParentFound ==
    /\ Scanning
    /\ cell_value # <<>>
    /\ AnyPatternMatches(search_patterns, cell_value)
    /\ parent_section # <<>>
    /\ ParentFound(df, row_idx, start_row, parent_section)
    /\ ReturnRow

\* lines 63-65: a pattern matches, the parent section is not found: break
MatchParentNotFound ==
    /\ Scanning
    /\ cell_value # <<>>
    /\ AnyPatternMatches(search_patterns, cell_value)
    /\ parent_section # <<>>
    /\ ~ParentFound(df, row_idx, start_row, parent_section)
    /\ NextRow

\* line 70: the range is exhausted
Exhausted ==
    /\ rpc = "scan"
    /\ row_idx >= ScanEnd(df)
    /\ result' = None
    /\ rpc' = "done"
    /\ UNCHANGED <<df, search_patterns, start_row, parent_section, row_idx, tested>>
    /\ UNCHANGED <<evars, bvars, mvars, ovars, dvars>>

\* ---- inputs of the Row Resolver ----
FedBonds == Str(<<"Federal", " ", "bonds">>)
FedBondsPadded == Str(<<" ", "FEDERAL", " ", "bonds", " ">>)
Bundesanleihen == Str(<<"Bundesanleihen">>)
OwnHoldings == Str(<<"OWN", " ", "holdings", " ", "(", "Eigenbestand", ")">>)
DebtType == Str(<<"Breakdown", " ", "by", " ", "debt", " ", "type">>)
Filler == Str(<<"30", "-", "year", " ", "Federal", " ", "bonds">>)
Blank == Str(<<" ">>)

\* search patterns of GFB.BORR.BREAKDEPTTYPE.FEDBOND.M
FedBondPatterns ==
    << Pat(TRUE, <<"Federal", " ", "bonds">>, TRUE),
       Pat(TRUE, <<"Bundesanleihen">>, TRUE) >>

Reverse(s) == [i \in 1..Len(s) |-> s[Len(s) + 1 - i]]

\* A one-column sheet: an ancestor label at row a (none when a = -1), an
\* empty label right below it when gap, labels matching the patterns at
\* rows m1 and m2 (none when = MaxRows), other labels elsewhere.
ResolverSheet(a, gap, m1, m2) ==
    [i \in 1..MaxRows |->
        LET r == i - 1
        IN  << IF r = m1 THEN (IF m1 % 2 = 1 THEN Bundesanleihen ELSE FedBonds)
               ELSE IF r = m2 THEN FedBondsPadded
               ELSE IF r = a THEN OwnHoldings
               ELSE IF gap /\ r = a + 1 THEN (IF a % 2 = 0 THEN NaN ELSE Blank)
               ELSE IF r = 0 THEN DebtType
               ELSE Filler >>]

ExtractorIdle ==
    /\ borrowing_df = <<>>
    /\ redemptions_df = <<>>
    /\ gfb_config = <<>>
    /\ dates = <<>>
    /\ borrowing_data = <<>>
    /\ redemption_data = <<>>
    /\ output_data = <<>>
    /\ formatted_data = <<>>
    /\ epc = "idle"

BuilderIdle ==
    /\ borrowing_date_row = None
    /\ redemption_date_row = None
    /\ measure_pos = 0
    /\ borrowing_mappings = <<>>
    /\ redemption_mappings = <<>>
    /\ config = <<>>
    /\ summary = <<>>
    /\ clock = 0
    /\ history = <<>>
    /\ bpc = "idle"

BatchIdle ==
    /\ excel_files = <<>>
    /\ file_idx = 0
    /\ processed_files = <<>>
    /\ attempted = <<>>
    /\ exit_code = None
    /\ report = <<>>
    /\ mpc = "idle"

OrchestratorIdle ==
    /\ args = <<>>
    /\ outcome = <<>>
    /\ success = TRUE
    /\ universal_success = TRUE
    /\ started = <<>>
    /\ status = None
    /\ opc = "idle"

DownloaderIdle ==
    /\ buttons = <<>>
    /\ download_buttons = <<>>
    /\ button_idx = 0
    /\ tried = <<>>
    /\ download_result = None
    /\ dpc = "idle"

Init ==
    /\ \E a \in -1..(MaxRows - 1), gap \in BOOLEAN, m1 \in 0..MaxRows :
         \E m2 \in {Min2(m1 + 2, MaxRows), Min2(m1 + 5, MaxRows), MaxRows} :
            df = ResolverSheet(a, gap, m1, m2)
    /\ search_patterns \in {FedBondPatterns, Reverse(FedBondPatterns)}
    /\ start_row \in {0, MaxStart}
    /\ parent_section \in {<<>>, <<"Own", " ", "holdings">>}
    /\ row_idx = start_row
    /\ result = None
    /\ tested = <<>>
    /\ rpc = "scan"
    /\ ExtractorIdle
    /\ BuilderIdle
    /\ BatchIdle
    /\ OrchestratorIdle
    /\ DownloaderIdle

Next ==
    \/ SkipEmpty
    \/ NoPatternMatch
    \/ MatchNoParent
    \/ MatchParentFound
    \/ MatchParentNotFound
    \/ Exhausted

Spec == Init /\ [][Next]_vars

\* ------------------------------------------------------------------------
\* find_date_row (build_config.py): the Date Axis Locator
\* ------------------------------------------------------------------------
ScanLimit == 20        \* range(min(20, len(df)))
DateWindowEnd == 10    \* iloc[row_idx, 1:10]
DateThreshold == 3     \* matches >= 3
DefaultDateRow == 13   \* return 13

\* symbols by their digits, for the symbols the sheets use
EndsInFourDigits == {"2023", "2024"}
StartsWithTwoDigits == {MonthSym[i] : i \in 1..12} \cup {"15", "24", "2023", "2024"}
OneOrTwoDigits == {MonthSym[i] : i \in 1..12} \cup {"1", "5", "15", "24"}
EndsInDigit == EndsInFourDigits \cup OneOrTwoDigits

\* symbols in which (Jan|Feb|...|Dec) is found, whatever the case
MonthWords ==
    {MonthName[i] : i \in 1..12} \cup {"JAN", "jan", "January", "March", "Summary", "Market"}

\* re.search(r'\d{4}-\d{2}', t)
YearMonth(t) ==
    \E i \in 1..(Len(t) - 2) :
        t[i] \in EndsInFourDigits /\ t[i + 1] = "-" /\ t[i + 2] \in StartsWithTwoDigits

\* re.search(r'\d{1,2}[/-]\d{1,2}[/-]\d{2,4}', t)
NumericDate(t) ==
    \E i \in 1..(Len(t) - 4) :
        /\ t[i] \in EndsInDigit
        /\ t[i + 1] \in {"/", "-"}
        /\ t[i + 2] \in OneOrTwoDigits
        /\ t[i + 3] \in {"/", "-"}
        /\ t[i + 4] \in StartsWithTwoDigits

\* re.search(r'(Jan|Feb|...|Dec)', t, re.IGNORECASE)
MonthNamed(t) == \E i \in 1..Len(t) : t[i] \in MonthWords

\* any(re.search(pat, str(val), re.IGNORECASE) for pat in date_patterns)
IsDateLike(val) ==
    LET t == StrOf(val) IN YearMonth(t) \/ NumericDate(t) \/ MonthNamed(t)

\* variant: the window starts at the label column
row_values_FromLabelColumn(d, r) ==
    [j \in 1..Min2(DateWindowEnd, Len(d[r + 1])) |-> d[r + 1][j]]

\* df.iloc[row_idx, 1:10]
row_values(d, r) ==
    [j \in 1..(Min2(DateWindowEnd, Len(d[r + 1])) - 1) |-> d[r + 1][j + 1]]

\* matches = sum(1 for val in row_values if ...)
date_matches(d, r) == Len(SelectSeq(row_values(d, r), IsDateLike))

\* the for loop with its early return, and the default behind it
find_date_row(d) ==
    LET qualifying == {r \in 0..(Min2(ScanLimit, Len(d)) - 1) :
                          date_matches(d, r) >= DateThreshold}
    IN  IF qualifying = {} THEN DefaultDateRow
        ELSE CHOOSE r \in qualifying : \A q \in qualifying : r <= q

\* ---- the same scan, one loop iteration per step ----
DateScanning == rpc = "dates" /\ row_idx < Min2(ScanLimit, Len(df))

DateFrame ==
    UNCHANGED <<df, search_patterns, start_row, parent_section, evars, bvars, mvars, ovars, dvars>>

\* lines 90-92: the row qualifies, return it
DateRowLocated ==
    /\ DateScanning
    /\ date_matches(df, row_idx) >= DateThreshold
    /\ result' = row_idx
    /\ rpc' = "located"
    /\ tested' = Append(tested, row_idx)
    /\ UNCHANGED row_idx
    /\ DateFrame

\* the row does not qualify, next row
DateRowSkipped ==
    /\ DateScanning
    /\ date_matches(df, row_idx) < DateThreshold
    /\ row_idx' = row_idx + 1
    /\ tested' = Append(tested, row_idx)
    /\ UNCHANGED <<result, rpc>>
    /\ DateFrame

\* variant: no default, None is returned
DateRowDefault_None ==
    /\ rpc = "dates"
    /\ row_idx >= Min2(ScanLimit, Len(df))
    /\ result' = None
    /\ rpc' = "defaulted"
    /\ UNCHANGED <<row_idx, tested>>
    /\ DateFrame

\* lines 94-95: the loop is exhausted, return the default
DateRowDefault ==
    /\ rpc = "dates"
    /\ row_idx >= Min2(ScanLimit, Len(df))
    /\ result' = DefaultDateRow
    /\ rpc' = "defaulted"
    /\ UNCHANGED <<row_idx, tested>>
    /\ DateFrame

\* ---- inputs of the Date Axis Locator ----
\* a date-like cell, its form by the column
DateLikeCell(c) ==
    CASE c % 5 = 0 -> DateTime((c % 12) + 1)
      [] c % 5 = 1 -> Str(<<MonthName[(c % 12) + 1], " ", "2024">>)
      [] c % 5 = 2 -> Str(<<"2024", "-", MonthSym[(c % 12) + 1]>>)
      [] c % 5 = 3 -> Str(<<"15", "/", MonthSym[(c % 12) + 1], "/", "2024">>)
      [] OTHER -> Str(<<"Summary">>)

\* a cell that holds no date
PlainCell(r, c) ==
    CASE (r + c) % 4 = 0 -> NaN
      [] (r + c) % 4 = 1 -> IntCell(2024)
      [] (r + c) % 4 = 2 -> Str(<<"Period", " ", "01">>)
      [] OTHER -> FloatCell(r, 5)

\* nrows x ncols cells; row d1 holds k1 date-like cells from column c1 on,
\* rows d2 and d2 + 2 hold three from column 1 on
DateSheet(nrows, ncols, d1, c1, k1, d2) ==
    [i \in 1..nrows |->
        [j \in 1..ncols |->
            LET r == i - 1
                c == j - 1
            IN  IF r = d1 /\ c >= c1 /\ c < c1 + k1 THEN DateLikeCell(c)
                ELSE IF d2 # None /\ r \in {d2, d2 + 2} /\ r # d1 /\ c >= 1 /\ c <= 3
                     THEN DateLikeCell(c)
                ELSE PlainCell(r, c)]]

InitDate ==
    /\ \E nrows \in {0, 5, MaxScanRows}, ncols \in {3, MaxScanCols},
          d1 \in 0..(MaxScanRows - 1), c1 \in {0, 1, 8, 9}, k1 \in 2..4,
          d2 \in {None, 3, ScanLimit} :
            df = DateSheet(nrows, ncols, d1, c1, k1, d2)
    /\ search_patterns = <<>>
    /\ start_row = 0
    /\ parent_section = <<>>
    /\ row_idx = 0
    /\ result = None
    /\ tested = <<>>
    /\ rpc = "dates"
    /\ ExtractorIdle
    /\ BuilderIdle
    /\ BatchIdle
    /\ OrchestratorIdle
    /\ DownloaderIdle

NextDate ==
    \/ DateRowLocated
    \/ DateRowSkipped
    \/ DateRowDefault

SpecDate == InitDate /\ [][NextDate]_vars

\* ------------------------------------------------------------------------
\* map.py: format_number and extract_gfb_data
\* ------------------------------------------------------------------------
\* Python's None as a cell of the output table
NoneCell == [k |-> "none", s |-> <<>>, n |-> 0, f |-> 0]

\* pd.isna(value) or value is None
IsNa(value) == value.k \in {"nan", "none"}

\* the texts float() accepts
IsNumericText(t) == Strip(t) \in {<<"12">>, <<"2", ".", "5">>}

FloatOfText(t) ==
    IF Strip(t) = <<"12">> THEN FloatCell(12, 0) ELSE FloatCell(2, 5)

\* float(value) returns (otherwise it raises ValueError or TypeError)
CanFloat(value) ==
    \/ value.k \in {"int", "float", "nan"}
    \/ value.k = "str" /\ IsNumericText(value.s)

\* float(value)
ToFloat(value) ==
    CASE value.k = "int" -> FloatCell(value.n, 0)
      [] value.k = "str" -> FloatOfText(value.s)
      [] OTHER -> value

\* the 54 borrowing codes and descriptions, symbol by symbol
BORROWING_CODES ==
    << <<"GFB", ".", "BORR", ".", "FINBUDGET", ".", "LOANFIN", ".", "M">>,
       <<"GFB", ".", "BORR", ".", "FINBUDGET", ".", "M">>,
       <<"GFB", ".", "BORR", ".", "BREAKPURP", ".", "M">>,
       <<"GFB", ".", "BORR", ".", "FEDBUDGET", ".", "M">>,
       <<"GFB", ".", "BORR", ".", "FINMARKETFUND", ".", "M">>,
       <<"GFB", ".", "BORR", ".", "FMSLOANEXP", ".", "M">>,
       <<"GFB", ".", "BORR", ".", "FMSLOANWINDAGE", ".", "M">>,
       <<"GFB", ".", "BORR", ".", "INVREDFUND", ".", "M">>,
       <<"GFB", ".", "BORR", ".", "ECONSTABFUND", ".", "M">>,
       <<"GFB", ".", "BORR", ".", "ESFLOANRECAPMEAS", ".", "M">>,
       <<"GFB", ".", "BORR", ".", "ESFLOANKFW23", ".", "M">>,
       <<"GFB", ".", "BORR", ".", "ESFLOANENERGCRIS", ".", "M">>,
       <<"GFB", ".", "BORR", ".", "ESFLOANKFW26", ".", "M">>,
       <<"GFB", ".", "BORR", ".", "SPECFUNDBUND", ".", "M">>,
       <<"GFB", ".", "BORR", ".", "RESTRFUND", ".", "M">>,
       <<"GFB", ".", "BORR", ".", "HARDCOALEQFUND", ".", "M">>,
       <<"GFB", ".", "BORR", ".", "FEDRAILFUND", ".", "M">>,
       <<"GFB", ".", "BORR", ".", "COMPFUND", ".", "M">>,
       <<"GFB", ".", "BORR", ".", "REDFUNDLIAB", ".", "M">>,
       <<"GFB", ".", "BORR", ".", "ERPSPECFUND", ".", "M">>,
       <<"GFB", ".", "BORR", ".", "GERUNITFUND", ".", "M">>,
       <<"GFB", ".", "BORR", ".", "EQUALBURFUND", ".", "M">>,
       <<"GFB", ".", "BORR", ".", "BREAKDEPTTYPE", ".", "M">>,
       <<"GFB", ".", "BORR", ".", "BREAKDEPTTYPE", ".", "FEDSEC", ".", "M">>,
       <<"GFB", ".", "BORR", ".", "BREAKDEPTTYPE", ".", "CONVFEDSEC", ".", "M">>,
       <<"GFB", ".", "BORR", ".", "BREAKDEPTTYPE", ".", "FEDBOND", ".", "M">>,
       <<"GFB", ".", "BORR", ".", "BREAKDEPTTYPE", ".", "30YFEDBOND", ".", "M">>,
       <<"GFB", ".", "BORR", ".", "BREAKDEPTTYPE", ".", "15YFEDBOND", ".", "M">>,
       <<"GFB", ".", "BORR", ".", "BREAKDEPTTYPE", ".", "10YFEDBOND", ".", "M">>,
       <<"GFB", ".", "BORR", ".", "BREAKDEPTTYPE", ".", "7YFEDBOND", ".", "M">>,
       <<"GFB", ".", "BORR", ".", "BREAKDEPTTYPE", ".", "FEDNOTE", ".", "M">>,
       <<"GFB", ".", "BORR", ".", "BREAKDEPTTYPE", ".", "FEDTREASNOTE", ".", "M">>,
       <<"GFB", ".", "BORR", ".", "BREAKDEPTTYPE", ".", "TREASDISCPAP", ".", "M">>,
       <<"GFB", ".", "BORR", ".", "BREAKDEPTTYPE", ".", "INFFEDSEC", ".", "M">>,
       <<"GFB", ".", "BORR", ".", "BREAKDEPTTYPE", ".", "GREENFEDSEC", ".", "M">>,
       <<"GFB", ".", "BORR", ".", "BREAKDEPTTYPE", ".", "SUPSECFEDGOV", ".", "M">>,
       <<"GFB", ".", "BORR", ".", "BREAKDEPTTYPE", ".", "LOANSUPFEDGOV", ".", "M">>,
       <<"GFB", ".", "BORR", ".", "BREAKDEPTTYPE", ".", "ESFINVFEDGOVSEC", ".", "M">>,
       <<"GFB", ".", "BORR", ".", "BREAKDEPTTYPE", ".", "OTHERFEDSEC", ".", "M">>,
       <<"GFB", ".", "BORR", ".", "BREAKDEPTTYPE", ".", "PROMNOTE", ".", "M">>,
       <<"GFB", ".", "BORR", ".", "BREAKDEPTTYPE", ".", "OTHERLOANORDDEPT", ".", "M">>,
       <<"GFB", ".", "BORR", ".", "OWNHOLD", ".", "M">>,
       <<"GFB", ".", "BORR", ".", "OWNHOLD", ".", "CONVFEDSEC", ".", "M">>,
       <<"GFB", ".", "BORR", ".", "OWNHOLD", ".", "30YFEDBOND", ".", "M">>,
       <<"GFB", ".", "BORR", ".", "OWNHOLD", ".", "15YFEDBOND", ".", "M">>,
       <<"GFB", ".", "BORR", ".", "OWNHOLD", ".", "10YFEDBOND", ".", "M">>,
       <<"GFB", ".", "BORR", ".", "OWNHOLD", ".", "7YFEDBOND", ".", "M">>,
       <<"GFB", ".", "BORR", ".", "OWNHOLD", ".", "FEDNOTE", ".", "M">>,
       <<"GFB", ".", "BORR", ".", "OWNHOLD", ".", "FEDTREASNOTE", ".", "M">>,
       <<"GFB", ".", "BORR", ".", "OWNHOLD", ".", "TREASDISCPAP", ".", "M">>,
       <<"GFB", ".", "BORR", ".", "OWNHOLD", ".", "INFFEDSEC", ".", "M">>,
       <<"GFB", ".", "BORR", ".", "OWNHOLD", ".", "GREENFEDSEC", ".", "M">>,
       <<"GFB", ".", "BORR", ".", "OWNHOLD", ".", "OTHERFEDSEC", ".", "M">>,
       <<"GFB", ".", "BORR", ".", "ESFINVFEDGOVSEC", ".", "M">> >>

BORROWING_DESCRIPTIONS ==
    << <<" ", "Financing", " ", "Federal", " ", "budget", ",", " ", "special", " ", "funds", ";", " ", "loan", " ", "financing", " ", "FMS", " ", "&", " ", "ESF">>,
       <<"Gross", " ", "Borrowing", " ", "Requirement", ":", " ", "Financing", " ", "Federal", " ", "budget", " ", "and", " ", "special", " ", "funds">>,
       <<"Gross", " ", "Borrowing", " ", "Requirement", ":", " ", "Breakdown", " ", "by", " ", "purpose">>,
       <<"Gross", " ", "Borrowing", " ", "Requirement", ":", " ", "Federal", " ", "budget">>,
       <<"Gross", " ", "Borrowing", " ", "Requirement", ":", " ", "Financial", " ", "Market", " ", "Stabilisation", " ", "Fund">>,
       <<"Gross", " ", "Borrowing", " ", "Requirement", ":", " ", "FMS", " ", "loans", " ", "for", " ", "expenses", " ", "acc", ".", " ", "to", " ", "section", " ", "9", " ", "(", "1", ")", " ", " ", "StFG">>,
       <<"Gross", " ", "Borrowing", " ", "Requirement", ":", " ", "FMS", " ", "loans", " ", "for", " ", "wind", "-", "up", " ", "agencies", " ", "acc", ".", " ", "to", " ", "section", " ", "9", " ", "(", "5", ")", " ", " ", "StFG">>,
       <<"Gross", " ", "Borrowing", " ", "Requirement", ":", " ", "Investment", " ", "and", " ", "Redemption", " ", "Fund">>,
       <<"Gross", " ", "Borrowing", " ", "Requirement", ":", " ", "Economic", " ", "Stabilisation", " ", "Fund">>,
       <<"Gross", " ", "Borrowing", " ", "Requirement", ":", " ", "ESF", " ", "loans", " ", "for", " ", "recapitalisation", " ", "measures", " ", "acc", ".", " ", "to", " ", "section", " ", "22", " ", "StFG">>,
       <<"Gross", " ", "Borrowing", " ", "Requirement", ":", " ", "ESF", " ", "loans", " ", "for", " ", "KfW", " ", "acc", ".", " ", "to", " ", "section", " ", "23", " ", "StFG">>,
       <<"Gross", " ", "Borrowing", " ", "Requirement", ":", " ", "ESF", " ", "loans", " ", "to", " ", "mitigate", " ", "consequences", " ", "of", " ", "the", " ", "energy", " ", "crisis", " ", "acc", ".", " ", "to", " ", "sect", ".", " ", "26a", " ", "(", "1", ")", " ", "no", ".", " ", "1", "-", "4", " ", "StFG">>,
       <<"Gross", " ", "Borrowing", " ", "Requirement", ":", " ", "ESF", " ", "loans", " ", "to", " ", "KfW", " ", "acc", ".", " ", "to", " ", "section", " ", "26a", " ", "(", "1", ")", " ", "no", " ", "5", " ", "StFG">>,
       <<"Gross", " ", "Borrowing", " ", "Requirement", ":", " ", "Special", " ", "Fund", " ", "for", " ", "the", " ", "Bundeswehr">>,
       <<"Gross", " ", "Borrowing", " ", "Requirement", ":", " ", "Restructuring", " ", "Fund">>,
       <<"Gross", " ", "Borrowing", " ", "Requirement", ":", " ", "Hard", " ", "Coal", " ", "Equalisation", " ", "Fund">>,
       <<"Gross", " ", "Borrowing", " ", "Requirement", ":", " ", "Federal", " ", "Railways", " ", "Fund">>,
       <<"Gross", " ", "Borrowing", " ", "Requirement", ":", " ", "Compensation", " ", "Fund">>,
       <<"Gross", " ", "Borrowing", " ", "Requirement", ":", " ", "Redemption", " ", "Fund", " ", "for", " ", "Inherited", " ", "Liabilities">>,
       <<"Gross", " ", "Borrowing", " ", "Requirement", ":", " ", "ERP", " ", "Special", " ", "Fund">>,
       <<"Gross", " ", "Borrowing", " ", "Requirement", ":", " ", "German", " ", "Unity", " ", "Fund">>,
       <<"Gross", " ", "Borrowing", " ", "Requirement", ":", " ", "Equalisation", " ", "of", " ", "Burdens", " ", "Fund">>,
       <<"Gross", " ", "Borrowing", " ", "Requirement", ":", " ", "Breakdown", " ", "by", " ", "debt", " ", "type">>,
       <<"Gross", " ", "Borrowing", " ", "Requirement", ":", " ", "Breakdown", " ", "by", " ", "debt", " ", "type", ":", " ", "Federal", " ", "securities">>,
       <<"Gross", " ", "Borrowing", " ", "Requirement", ":", " ", "Breakdown", " ", "by", " ", "debt", " ", "type", ":", " ", "Conventional", " ", "Federal", " ", "securities">>,
       <<"Gross", " ", "Borrowing", " ", "Requirement", ":", " ", "Breakdown", " ", "by", " ", "debt", " ", "type", ":", " ", "Federal", " ", "bonds">>,
       <<"Gross", " ", "Borrowing", " ", "Requirement", ":", " ", "Breakdown", " ", "by", " ", "debt", " ", "type", ":", " ", "30", "-", "year", " ", "Federal", " ", "bonds">>,
       <<"Gross", " ", "Borrowing", " ", "Requirement", ":", " ", "Breakdown", " ", "by", " ", "debt", " ", "type", ":", " ", "15", "-", "year", " ", "Federal", " ", "bonds">>,
       <<"Gross", " ", "Borrowing", " ", "Requirement", ":", " ", "Breakdown", " ", "by", " ", "debt", " ", "type", ":", " ", "10", "-", "year", " ", "Federal", " ", "bonds">>,
       <<"Gross", " ", "Borrowing", " ", "Requirement", ":", " ", "Breakdown", " ", "by", " ", "debt", " ", "type", ":", " ", "7", "-", "year", " ", "Federal", " ", "bonds">>,
       <<"Gross", " ", "Borrowing", " ", "Requirement", ":", " ", "Breakdown", " ", "by", " ", "debt", " ", "type", ":", " ", "Federal", " ", "notes">>,
       <<"Gross", " ", "Borrowing", " ", "Requirement", ":", " ", "Breakdown", " ", "by", " ", "debt", " ", "type", ":", " ", "Federal", " ", "Treasury", " ", "notes">>,
       <<"Gross", " ", "Borrowing", " ", "Requirement", ":", " ", "Breakdown", " ", "by", " ", "debt", " ", "type", ":", " ", "Treasury", " ", "discount", " ", "paper">>,
       <<"Gross", " ", "Borrowing", " ", "Requirement", ":", " ", "Breakdown", " ", "by", " ", "debt", " ", "type", ":", " ", "Inflation", "-", "linked", " ", "Federal", " ", "securities">>,
       <<"Gross", " ", "Borrowing", " ", "Requirement", ":", " ", "Breakdown", " ", "by", " ", "debt", " ", "type", ":", " ", "Green", " ", "Federal", " ", "securities">>,
       <<"Gross", " ", "Borrowing", " ", "Requirement", ":", " ", "Breakdown", " ", "by", " ", "debt", " ", "type", ":", " ", "Supplementary", " ", "securities", " ", "issued", " ", "by", " ", "the", " ", "federal", " ", "government">>,
       <<"Gross", " ", "Borrowing", " ", "Requirement", ":", " ", "Breakdown", " ", "by", " ", "debt", " ", "type", ":", " ", "Loans", " ", "from", " ", "suppl", ".", " ", "issues", " ", "by", " ", "the", " ", "federal", " ", "government", " ", "for", " ", "the", " ", "ESF", " ", "acc", ".", " ", "to", " ", "sect", ".", " ", "26b", " ", "StFG">>,
       <<"Gross", " ", "Borrowing", " ", "Requirement", ":", " ", "Breakdown", " ", "by", " ", "debt", " ", "type", ":", " ", "ESF", " ", "investment", " ", "in", " ", "federal", " ", "government", " ", "securities", " ", "acc", ".", " ", "to", " ", "sect", ".", " ", "26b", " ", "(", "5", ")", " ", "StFG">>,
       <<"Gross", " ", "Borrowing", " ", "Requirement", ":", " ", "Breakdown", " ", "by", " ", "debt", " ", "type", ":", " ", "Other", " ", "Federal", " ", "securities">>,
       <<"Gross", " ", "Borrowing", " ", "Requirement", ":", " ", "Breakdown", " ", "by", " ", "debt", " ", "type", ":", " ", "Promissory", " ", "notes">>,
       <<"Gross", " ", "Borrowing", " ", "Requirement", ":", " ", "Breakdown", " ", "by", " ", "debt", " ", "type", ":", " ", "Other", " ", "loans", " ", "and", " ", "ordinary", " ", "debts">>,
       <<"Gross", " ", "Borrowing", " ", "Requirement", ":", " ", "Own", " ", "holdings">>,
       <<"Gross", " ", "Borrowing", " ", "Requirement", ":", " ", "Own", " ", "holdings", ":", " ", "Conventional", " ", "Federal", " ", "securities">>,
       <<"Gross", " ", "Borrowing", " ", "Requirement", ":", " ", "Own", " ", "holdings", ":", " ", "30", "-", "year", " ", "Federal", " ", "bonds">>,
       <<"Gross", " ", "Borrowing", " ", "Requirement", ":", " ", "Own", " ", "holdings", ":", " ", "15", "-", "year", " ", "Federal", " ", "bonds">>,
       <<"Gross", " ", "Borrowing", " ", "Requirement", ":", " ", "Own", " ", "holdings", ":", " ", "10", "-", "year", " ", "Federal", " ", "bonds">>,
       <<"Gross", " ", "Borrowing", " ", "Requirement", ":", " ", "Own", " ", "holdings", ":", " ", "7", "-", "year", " ", "Federal", " ", "bonds">>,
       <<"Gross", " ", "Borrowing", " ", "Requirement", ":", " ", "Own", " ", "holdings", ":", " ", "Federal", " ", "notes">>,
       <<"Gross", " ", "Borrowing", " ", "Requirement", ":", " ", "Own", " ", "holdings", ":", " ", "Federal", " ", "Treasury", " ", "notes">>,
       <<"Gross", " ", "Borrowing", " ", "Requirement", ":", " ", "Own", " ", "holdings", ":", " ", "Treasury", " ", "discount", " ", "paper">>,
       <<"Gross", " ", "Borrowing", " ", "Requirement", ":", " ", "Own", " ", "holdings", ":", " ", "Inflation", "-", "linked", " ", "Federal", " ", "securities">>,
       <<"Gross", " ", "Borrowing", " ", "Requirement", ":", " ", "Own", " ", "holdings", ":", " ", "Green", " ", "Federal", " ", "securities">>,
       <<"Gross", " ", "Borrowing", " ", "Requirement", ":", " ", "Own", " ", "holdings", ":", " ", "Other", " ", "Federal", " ", "securities">>,
       <<"Gross", " ", "Borrowing", " ", "Requirement", ":", " ", "ESF", " ", "investment", " ", "in", " ", "federal", " ", "government", " ", "securities", " ", "acc", ".", " ", "to", " ", "sect", ".", " ", "26b", " ", "(", "5", ")", " ", "StFG">> >>

\* str.replace(old, new): every occurrence, left to right
RECURSIVE Replace(_, _, _)
Replace(t, old, new) ==
    IF Len(t) < Len(old) THEN t
    ELSE IF SubSeq(t, 1, Len(old)) = old
         THEN new \o Replace(SubSeq(t, Len(old) + 1, Len(t)), old, new)
         ELSE <<Head(t)>> \o Replace(Tail(t), old, new)

REDEMPTION_CODES ==
    [i \in 1..Len(BORROWING_CODES) |-> Replace(BORROWING_CODES[i], <<"BORR">>, <<"REDEM">>)]

REDEMPTION_DESCRIPTIONS ==
    [i \in 1..Len(BORROWING_DESCRIPTIONS) |->
        Replace(Replace(BORROWING_DESCRIPTIONS[i],
                        <<"Gross", " ", "Borrowing", " ", "Requirement", ":">>,
                        <<"Redemption", " ", "Payments", ":">>),
                <<" ", "Financing", " ", "Federal", " ", "budget">>,
                <<"Redemption", " ", "Payments", ":", " ", "Financing", " ", "Federal", " ", "budget">>)]

StrCells(texts) == [i \in 1..Len(texts) |-> Str(texts[i])]

ALL_CODES == <<NoneCell>> \o StrCells(BORROWING_CODES) \o StrCells(REDEMPTION_CODES)

ALL_DESCRIPTIONS ==
    <<NoneCell>> \o StrCells(BORROWING_DESCRIPTIONS) \o StrCells(REDEMPTION_DESCRIPTIONS)

\* the source row of each of the 54 measures
borrowing_row_mapping ==
    << 14, 15, 16, 17, 18, 19, 20, 21, 22, 23, 24, 25, 26, 27, 28, 29, 30, 31, 32, 33, 34, 35,
       36, 37, 38, 39, 40, 41, 42, 43, 44, 45, 46, 47, 48, 49, 50, 51, 52, 53, 54,
       89, 90, 91, 92, 93, 94, 95, 96, 97, 98, 99, 100, 101 >>

redemption_row_mapping == borrowing_row_mapping

\* the row the dates are read from
DATE_ROW == 13

\* variant: an unparseable value is dropped
format_number_Strict(value) ==
    IF IsNa(value) THEN NoneCell
    ELSE IF CanFloat(value)
         THEN LET num_value == ToFloat(value)
              IN  IF num_value.f = 0 THEN IntCell(num_value.n) ELSE num_value
         ELSE NoneCell

format_number(value) ==
    IF IsNa(value) THEN NoneCell
    ELSE IF CanFloat(value)
         THEN LET num_value == ToFloat(value)
              IN  IF num_value.f = 0 THEN IntCell(num_value.n) ELSE num_value
         ELSE value

\* strftime('%Y-%m') of a datetime of the year 2024
StrfTime(m) == <<"2024", "-", MonthSym[m]>>

\* pd.to_datetime(text) succeeds
ParsesAsDate(t) ==
    \E m \in 1..12 : t = <<"2024", "-", MonthSym[m]>> \/ t = <<MonthName[m], " ", "2024">>

ParsedMonth(t) ==
    CHOOSE m \in 1..12 : t = <<"2024", "-", MonthSym[m]>> \/ t = <<MonthName[m], " ", "2024">>

\* lines 204-213: one date cell to its period label
ConvertDate(date_val) ==
    CASE date_val.k = "dt" -> StrfTime(date_val.n)
      [] date_val.k = "str" /\ ParsesAsDate(date_val.s) -> StrfTime(ParsedMonth(date_val.s))
      [] date_val.k \in {"int", "float"} -> <<"1970", "-", "01">>
      [] OTHER -> StrOf(date_val)

\* Series.dropna()
DropNa(cells) == SelectSeq(cells, LAMBDA c : ~IsNa(c))

\* borrowing_df.iloc[13, 1:].dropna()
DateRow(d) == DropNa(SubSeq(d[DATE_ROW + 1], 2, Len(d[DATE_ROW + 1])))

\* lines 232-240: df.iloc[row_idx, 1:len(dates)+1].values, or the NaN padding
RowData(d, r, ndates) ==
    IF r < Len(d)
    THEN SubSeq(d[r + 1], 2, Min2(ndates + 1, Len(d[r + 1])))
    ELSE [j \in 1..ndates |-> NaN]

\* variant: a measure whose row is missing is left out
ExtractRows_SkipMissing(d, row_mapping, ndates) ==
    LET present == SelectSeq(row_mapping, LAMBDA r : r < Len(d))
    IN  [i \in 1..Len(present) |-> RowData(d, present[i], ndates)]

\* lines 231-240 and 249-258: the loop over the row mapping
ExtractRows(d, row_mapping, ndates) ==
    [i \in 1..Len(row_mapping) |-> RowData(d, row_mapping[i], ndates)]

\* variant: a missing value becomes 0.0
ToOutputValue_FillZero(value) ==
    IF IsNa(value) THEN FloatCell(0, 0)
    ELSE IF CanFloat(value) THEN ToFloat(value)
    ELSE value

\* lines 280-288: a value of a measure row to a cell of the output row
ToOutputValue(value) ==
    IF IsNa(value) THEN NoneCell
    ELSE IF CanFloat(value) THEN ToFloat(value)
    ELSE value

\* lines 275-290: the output row of date i (counted from 1)
DataRow(i, date, all_data) ==
    <<Str(date)>> \o
    [measure_idx \in 1..Len(all_data) |->
        IF i <= Len(all_data[measure_idx])
        THEN ToOutputValue(all_data[measure_idx][i])
        ELSE NoneCell]

\* lines 298-304: the formatting pass over one row
FormatRow(row) ==
    [j \in 1..Len(row) |->
        LET i == j - 1
        IN  IF i = 0 \/ i < 2 THEN row[j] ELSE format_number(row[j])]

ExtractorFrame == UNCHANGED <<rvars, bvars, mvars, ovars, dvars, borrowing_df, redemptions_df, gfb_config>>

\* line 199 raises IndexError when the sheet has no row 14; re-raised at 338-340
DateRowMissing ==
    /\ epc = "start"
    /\ Len(borrowing_df) <= DATE_ROW
    /\ epc' = "error"
    /\ UNCHANGED <<dates, borrowing_data, redemption_data, output_data, formatted_data>>
    /\ ExtractorFrame

\* lines 197-215
ExtractDates ==
    /\ epc = "start"
    /\ Len(borrowing_df) > DATE_ROW
    /\ dates' = [i \in 1..Len(DateRow(borrowing_df)) |-> ConvertDate(DateRow(borrowing_df)[i])]
    /\ epc' = "dates"
    /\ UNCHANGED <<borrowing_data, redemption_data, output_data, formatted_data>>
    /\ ExtractorFrame

\* lines 217-240
ExtractBorrowing ==
    /\ epc = "dates"
    /\ borrowing_data' = ExtractRows(borrowing_df, borrowing_row_mapping, Len(dates))
    /\ epc' = "borrowing"
    /\ UNCHANGED <<dates, redemption_data, output_data, formatted_data>>
    /\ ExtractorFrame

\* lines 242-258
ExtractRedemption ==
    /\ epc = "borrowing"
    /\ redemption_data' = ExtractRows(redemptions_df, redemption_row_mapping, Len(dates))
    /\ epc' = "redemption"
    /\ UNCHANGED <<dates, borrowing_data, output_data, formatted_data>>
    /\ ExtractorFrame

\* lines 260-292
Assemble ==
    /\ epc = "redemption"
    /\ LET all_data == borrowing_data \o redemption_data
       IN  output_data' = <<ALL_CODES, ALL_DESCRIPTIONS>> \o
                          [i \in 1..Len(dates) |-> DataRow(i, dates[i], all_data)]
    /\ epc' = "assembled"
    /\ UNCHANGED <<dates, borrowing_data, redemption_data, formatted_data>>
    /\ ExtractorFrame

\* lines 294-304
FormatNumbers ==
    /\ epc = "assembled"
    /\ formatted_data' = [r \in 1..Len(output_data) |-> FormatRow(output_data[r])]
    /\ epc' = "done"
    /\ UNCHANGED <<dates, borrowing_data, redemption_data, output_data>>
    /\ ExtractorFrame

\* ------------------------------------------------------------------------
\* create_measure_definitions (build_config.py): the catalog
\* ------------------------------------------------------------------------
\* Letters outside ASCII are written out (ae, oe, ue, Par for the section sign).
\* the 54 borrowing measures, in the order of the list (lines 105-545);
\* parent_section is <<>> for a measure without that key
borrowing_measures ==
    << [code |-> <<"GFB", ".", "BORR", ".", "FINBUDGET", ".", "LOANFIN", ".", "M">>,
        description |-> <<" ", "Financing", " ", "Federal", " ", "budget", ",", " ", "special", " ", "funds", ";", " ", "loan", " ", "financing", " ", "FMS", " ", "&", " ", "ESF">>,
        search_patterns |->
            << PatSeq(FALSE, <<"Financing", " ", "Federal", " ", "budget", ",", " ", "special", " ", "funds">>, << <<"loan", " ", "financing">> >>, FALSE),
               PatSeq(FALSE, <<"Finanzierungsbedarf">>, << <<"Bundeshaushalt">>, <<"Sondervermoegen">>, <<"Darlehensfin">> >>, FALSE) >>,
        parent_section |-> <<>>],
       [code |-> <<"GFB", ".", "BORR", ".", "FINBUDGET", ".", "M">>,
        description |-> <<"Gross", " ", "Borrowing", " ", "Requirement", ":", " ", "Financing", " ", "Federal", " ", "budget", " ", "and", " ", "special", " ", "funds">>,
        search_patterns |->
            << Pat(TRUE, <<"Financing", " ", "Federal", " ", "budget", " ", "and", " ", "special", " ", "funds">>, FALSE),
               Pat(TRUE, <<"Finanzierungsbedarf", " ", "Bundeshaushalt", " ", "und", " ", "Sondervermoegen">>, FALSE) >>,
        parent_section |-> <<>>],
       [code |-> <<"GFB", ".", "BORR", ".", "BREAKPURP", ".", "M">>,
        description |-> <<"Gross", " ", "Borrowing", " ", "Requirement", ":", " ", "Breakdown", " ", "by", " ", "purpose">>,
        search_patterns |->
            << Pat(TRUE, <<"Breakdown", " ", "by", " ", "purpose">>, FALSE),
               Pat(TRUE, <<"Gliederung", " ", "nach", " ", "Zweck">>, FALSE) >>,
        parent_section |-> <<>>],
       [code |-> <<"GFB", ".", "BORR", ".", "FEDBUDGET", ".", "M">>,
        description |-> <<"Gross", " ", "Borrowing", " ", "Requirement", ":", " ", "Federal", " ", "budget">>,
        search_patterns |->
            << Pat(TRUE, <<"Federal", " ", "budget">>, TRUE),
               Pat(TRUE, <<"Bundeshaushalt">>, TRUE) >>,
        parent_section |-> <<>>],
       [code |-> <<"GFB", ".", "BORR", ".", "FINMARKETFUND", ".", "M">>,
        description |-> <<"Gross", " ", "Borrowing", " ", "Requirement", ":", " ", "Financial", " ", "Market", " ", "Stabilisation", " ", "Fund">>,
        search_patterns |->
            << Pat(FALSE, <<"Financial", " ", "Market", " ", "Stabilisation", " ", "Fund">>, FALSE),
               Pat(FALSE, <<"Finanzmarktstabilisierungsfonds">>, FALSE) >>,
        parent_section |-> <<>>],
       [code |-> <<"GFB", ".", "BORR", ".", "FMSLOANEXP", ".", "M">>,
        description |-> <<"Gross", " ", "Borrowing", " ", "Requirement", ":", " ", "FMS", " ", "loans", " ", "for", " ", "expenses", " ", "acc", ".", " ", "to", " ", "section", " ", "9", " ", "(", "1", ")", " ", " ", "StFG">>,
        search_patterns |->
            << PatSeq(FALSE, <<"FMS", " ", "loans", " ", "for", " ", "expenses">>, << <<"section", " ", "9">>, <<"1">> >>, FALSE),
               PatSeq(FALSE, <<"FMS", "-", "Darlehen", " ", "fuer", " ", "Ausgaben">>, << <<"Par", " ", "9">>, <<"1">> >>, FALSE) >>,
        parent_section |-> <<>>],
       [code |-> <<"GFB", ".", "BORR", ".", "FMSLOANWINDAGE", ".", "M">>,
        description |-> <<"Gross", " ", "Borrowing", " ", "Requirement", ":", " ", "FMS", " ", "loans", " ", "for", " ", "wind", "-", "up", " ", "agencies", " ", "acc", ".", " ", "to", " ", "section", " ", "9", " ", "(", "5", ")", " ", " ", "StFG">>,
        search_patterns |->
            << PatSeq(FALSE, <<"FMS", " ", "loans", " ", "for", " ", "wind", "-", "up", " ", "agencies">>, << <<"section", " ", "9">>, <<"5">> >>, FALSE),
               PatSeq(FALSE, <<"FMS", "-", "Darlehen", " ", "fuer", " ", "Abwicklungsanstalten">>, << <<"Par", " ", "9">>, <<"5">> >>, FALSE) >>,
        parent_section |-> <<>>],
       [code |-> <<"GFB", ".", "BORR", ".", "INVREDFUND", ".", "M">>,
        description |-> <<"Gross", " ", "Borrowing", " ", "Requirement", ":", " ", "Investment", " ", "and", " ", "Redemption", " ", "Fund">>,
        search_patterns |->
            << Pat(FALSE, <<"Investment", " ", "and", " ", "Redemption", " ", "Fund">>, FALSE),
               Pat(FALSE, <<"Investitions", "-", " ", "und", " ", "Tilgungsfonds">>, FALSE) >>,
        parent_section |-> <<>>],
       [code |-> <<"GFB", ".", "BORR", ".", "ECONSTABFUND", ".", "M">>,
        description |-> <<"Gross", " ", "Borrowing", " ", "Requirement", ":", " ", "Economic", " ", "Stabilisation", " ", "Fund">>,
        search_patterns |->
            << Pat(TRUE, <<"Economic", " ", "Stabilisation", " ", "Fund">>, TRUE),
               Pat(TRUE, <<"Wirtschaftsstabilisierungsfonds">>, TRUE) >>,
        parent_section |-> <<>>],
       [code |-> <<"GFB", ".", "BORR", ".", "ESFLOANRECAPMEAS", ".", "M">>,
        description |-> <<"Gross", " ", "Borrowing", " ", "Requirement", ":", " ", "ESF", " ", "loans", " ", "for", " ", "recapitalisation", " ", "measures", " ", "acc", ".", " ", "to", " ", "section", " ", "22", " ", "StFG">>,
        search_patterns |->
            << PatSeq(FALSE, <<"ESF", " ", "loans", " ", "for", " ", "recapitalisation">>, << <<"section", " ", "22">> >>, FALSE),
               PatSeq(FALSE, <<"WSF", "-", "Darlehen", " ", "fuer", " ", "Rekapitalisierung">>, << <<"Par", " ", "22">> >>, FALSE) >>,
        parent_section |-> <<>>],
       [code |-> <<"GFB", ".", "BORR", ".", "ESFLOANKFW23", ".", "M">>,
        description |-> <<"Gross", " ", "Borrowing", " ", "Requirement", ":", " ", "ESF", " ", "loans", " ", "for", " ", "KfW", " ", "acc", ".", " ", "to", " ", "section", " ", "23", " ", "StFG">>,
        search_patterns |->
            << PatSeq(FALSE, <<"ESF", " ", "loans", " ", "for", " ", "KfW">>, << <<"section", " ", "23">> >>, FALSE),
               PatSeq(FALSE, <<"WSF", "-", "Darlehen", " ", "an", " ", "KfW">>, << <<"Par", " ", "23">> >>, FALSE) >>,
        parent_section |-> <<>>],
       [code |-> <<"GFB", ".", "BORR", ".", "ESFLOANENERGCRIS", ".", "M">>,
        description |-> <<"Gross", " ", "Borrowing", " ", "Requirement", ":", " ", "ESF", " ", "loans", " ", "to", " ", "mitigate", " ", "consequences", " ", "of", " ", "the", " ", "energy", " ", "crisis", " ", "acc", ".", " ", "to", " ", "sect", ".", " ", "26a", " ", "(", "1", ")", " ", "no", ".", " ", "1", "-", "4", " ", "StFG">>,
        search_patterns |->
            << PatSeq(FALSE, <<"ESF", " ", "loans">>, << <<"energy", " ", "crisis">>, <<"26a">>, <<"1">>, <<"1", "-", "4">> >>, FALSE),
               PatSeq(FALSE, <<"WSF", "-", "Darlehen">>, << <<"Energiekrise">>, <<"26a">>, <<"1">>, <<"1", "-", "4">> >>, FALSE) >>,
        parent_section |-> <<>>],
       [code |-> <<"GFB", ".", "BORR", ".", "ESFLOANKFW26", ".", "M">>,
        description |-> <<"Gross", " ", "Borrowing", " ", "Requirement", ":", " ", "ESF", " ", "loans", " ", "to", " ", "KfW", " ", "acc", ".", " ", "to", " ", "section", " ", "26a", " ", "(", "1", ")", " ", "no", " ", "5", " ", "StFG">>,
        search_patterns |->
            << PatSeq(FALSE, <<"ESF", " ", "loans", " ", "to", " ", "KfW">>, << <<"section", " ", "26a">>, <<"1">>, <<"5">> >>, FALSE),
               PatSeq(FALSE, <<"WSF", "-", "Darlehen", " ", "an", " ", "KfW">>, << <<"Par", " ", "26a">>, <<"1">>, <<"5">> >>, FALSE) >>,
        parent_section |-> <<>>],
       [code |-> <<"GFB", ".", "BORR", ".", "SPECFUNDBUND", ".", "M">>,
        description |-> <<"Gross", " ", "Borrowing", " ", "Requirement", ":", " ", "Special", " ", "Fund", " ", "for", " ", "the", " ", "Bundeswehr">>,
        search_patterns |->
            << Pat(FALSE, <<"Special", " ", "Fund", " ", "for", " ", "the", " ", "Bundeswehr">>, FALSE),
               Pat(FALSE, <<"Sondervermoegen", " ", "Bundeswehr">>, FALSE) >>,
        parent_section |-> <<>>],
       [code |-> <<"GFB", ".", "BORR", ".", "RESTRFUND", ".", "M">>,
        description |-> <<"Gross", " ", "Borrowing", " ", "Requirement", ":", " ", "Restructuring", " ", "Fund">>,
        search_patterns |->
            << Pat(TRUE, <<"Restructuring", " ", "Fund">>, TRUE),
               Pat(TRUE, <<"Restrukturierungsfonds">>, TRUE) >>,
        parent_section |-> <<>>],
       [code |-> <<"GFB", ".", "BORR", ".", "HARDCOALEQFUND", ".", "M">>,
        description |-> <<"Gross", " ", "Borrowing", " ", "Requirement", ":", " ", "Hard", " ", "Coal", " ", "Equalisation", " ", "Fund">>,
        search_patterns |->
            << Pat(FALSE, <<"Hard", " ", "Coal", " ", "Equalisation", " ", "Fund">>, FALSE),
               Pat(FALSE, <<"Steinkohlefinanzierungsfonds">>, FALSE) >>,
        parent_section |-> <<>>],
       [code |-> <<"GFB", ".", "BORR", ".", "FEDRAILFUND", ".", "M">>,
        description |-> <<"Gross", " ", "Borrowing", " ", "Requirement", ":", " ", "Federal", " ", "Railways", " ", "Fund">>,
        search_patterns |->
            << Pat(FALSE, <<"Federal", " ", "Railways", " ", "Fund">>, FALSE),
               Pat(FALSE, <<"Bundeseisenbahnvermoegen">>, FALSE) >>,
        parent_section |-> <<>>],
       [code |-> <<"GFB", ".", "BORR", ".", "COMPFUND", ".", "M">>,
        description |-> <<"Gross", " ", "Borrowing", " ", "Requirement", ":", " ", "Compensation", " ", "Fund">>,
        search_patterns |->
            << Pat(TRUE, <<"Compensation", " ", "Fund">>, TRUE),
               Pat(TRUE, <<"Ausgleichsfonds">>, TRUE) >>,
        parent_section |-> <<>>],
       [code |-> <<"GFB", ".", "BORR", ".", "REDFUNDLIAB", ".", "M">>,
        description |-> <<"Gross", " ", "Borrowing", " ", "Requirement", ":", " ", "Redemption", " ", "Fund", " ", "for", " ", "Inherited", " ", "Liabilities">>,
        search_patterns |->
            << Pat(FALSE, <<"Redemption", " ", "Fund", " ", "for", " ", "Inherited", " ", "Liabilities">>, FALSE),
               Pat(FALSE, <<"Erblastentilgungsfonds">>, FALSE) >>,
        parent_section |-> <<>>],
       [code |-> <<"GFB", ".", "BORR", ".", "ERPSPECFUND", ".", "M">>,
        description |-> <<"Gross", " ", "Borrowing", " ", "Requirement", ":", " ", "ERP", " ", "Special", " ", "Fund">>,
        search_patterns |->
            << Pat(FALSE, <<"ERP", " ", "Special", " ", "Fund">>, FALSE),
               Pat(FALSE, <<"ERP", "-", "Sondervermoegen">>, FALSE) >>,
        parent_section |-> <<>>],
       [code |-> <<"GFB", ".", "BORR", ".", "GERUNITFUND", ".", "M">>,
        description |-> <<"Gross", " ", "Borrowing", " ", "Requirement", ":", " ", "German", " ", "Unity", " ", "Fund">>,
        search_patterns |->
            << Pat(FALSE, <<"German", " ", "Unity", " ", "Fund">>, FALSE),
               Pat(FALSE, <<"Fonds", " ", "Deutsche", " ", "Einheit">>, FALSE) >>,
        parent_section |-> <<>>],
       [code |-> <<"GFB", ".", "BORR", ".", "EQUALBURFUND", ".", "M">>,
        description |-> <<"Gross", " ", "Borrowing", " ", "Requirement", ":", " ", "Equalisation", " ", "of", " ", "Burdens", " ", "Fund">>,
        search_patterns |->
            << Pat(FALSE, <<"Equalisation", " ", "of", " ", "Burdens", " ", "Fund">>, FALSE),
               Pat(FALSE, <<"Lastenausgleichsfonds">>, FALSE) >>,
        parent_section |-> <<>>],
       [code |-> <<"GFB", ".", "BORR", ".", "BREAKDEPTTYPE", ".", "M">>,
        description |-> <<"Gross", " ", "Borrowing", " ", "Requirement", ":", " ", "Breakdown", " ", "by", " ", "debt", " ", "type">>,
        search_patterns |->
            << Pat(TRUE, <<"Breakdown", " ", "by", " ", "debt", " ", "type">>, TRUE),
               Pat(TRUE, <<"Gliederung", " ", "nach", " ", "Schuldarten">>, TRUE) >>,
        parent_section |-> <<>>],
       [code |-> <<"GFB", ".", "BORR", ".", "BREAKDEPTTYPE", ".", "FEDSEC", ".", "M">>,
        description |-> <<"Gross", " ", "Borrowing", " ", "Requirement", ":", " ", "Breakdown", " ", "by", " ", "debt", " ", "type", ":", " ", "Federal", " ", "securities">>,
        search_patterns |->
            << Pat(TRUE, <<"Federal", " ", "securities">>, TRUE),
               Pat(TRUE, <<"Bundeswertpapiere">>, TRUE) >>,
        parent_section |-> <<>>],
       [code |-> <<"GFB", ".", "BORR", ".", "BREAKDEPTTYPE", ".", "CONVFEDSEC", ".", "M">>,
        description |-> <<"Gross", " ", "Borrowing", " ", "Requirement", ":", " ", "Breakdown", " ", "by", " ", "debt", " ", "type", ":", " ", "Conventional", " ", "Federal", " ", "securities">>,
        search_patterns |->
            << Pat(FALSE, <<"Conventional", " ", "Federal", " ", "securities">>, FALSE),
               Pat(FALSE, <<"Konventionelle", " ", "Bundeswertpapiere">>, FALSE) >>,
        parent_section |-> <<>>],
       [code |-> <<"GFB", ".", "BORR", ".", "BREAKDEPTTYPE", ".", "FEDBOND", ".", "M">>,
        description |-> <<"Gross", " ", "Borrowing", " ", "Requirement", ":", " ", "Breakdown", " ", "by", " ", "debt", " ", "type", ":", " ", "Federal", " ", "bonds">>,
        search_patterns |->
            << Pat(TRUE, <<"Federal", " ", "bonds">>, TRUE),
               Pat(TRUE, <<"Bundesanleihen">>, TRUE) >>,
        parent_section |-> <<>>],
       [code |-> <<"GFB", ".", "BORR", ".", "BREAKDEPTTYPE", ".", "30YFEDBOND", ".", "M">>,
        description |-> <<"Gross", " ", "Borrowing", " ", "Requirement", ":", " ", "Breakdown", " ", "by", " ", "debt", " ", "type", ":", " ", "30", "-", "year", " ", "Federal", " ", "bonds">>,
        search_patterns |->
            << Pat(FALSE, <<"30", "-", "year", " ", "Federal", " ", "bonds">>, FALSE),
               Pat(FALSE, <<"30", "-", "jaehrige", " ", "Bundesanleihen">>, FALSE) >>,
        parent_section |-> <<>>],
       [code |-> <<"GFB", ".", "BORR", ".", "BREAKDEPTTYPE", ".", "15YFEDBOND", ".", "M">>,
        description |-> <<"Gross", " ", "Borrowing", " ", "Requirement", ":", " ", "Breakdown", " ", "by", " ", "debt", " ", "type", ":", " ", "15", "-", "year", " ", "Federal", " ", "bonds">>,
        search_patterns |->
            << Pat(FALSE, <<"15", "-", "year", " ", "Federal", " ", "bonds">>, FALSE),
               Pat(FALSE, <<"15", "-", "jaehrige", " ", "Bundesanleihen">>, FALSE) >>,
        parent_section |-> <<>>],
       [code |-> <<"GFB", ".", "BORR", ".", "BREAKDEPTTYPE", ".", "10YFEDBOND", ".", "M">>,
        description |-> <<"Gross", " ", "Borrowing", " ", "Requirement", ":", " ", "Breakdown", " ", "by", " ", "debt", " ", "type", ":", " ", "10", "-", "year", " ", "Federal", " ", "bonds">>,
        search_patterns |->
            << Pat(FALSE, <<"10", "-", "year", " ", "Federal", " ", "bonds">>, FALSE),
               Pat(FALSE, <<"10", "-", "jaehrige", " ", "Bundesanleihen">>, FALSE) >>,
        parent_section |-> <<>>],
       [code |-> <<"GFB", ".", "BORR", ".", "BREAKDEPTTYPE", ".", "7YFEDBOND", ".", "M">>,
        description |-> <<"Gross", " ", "Borrowing", " ", "Requirement", ":", " ", "Breakdown", " ", "by", " ", "debt", " ", "type", ":", " ", "7", "-", "year", " ", "Federal", " ", "bonds">>,
        search_patterns |->
            << Pat(FALSE, <<"7", "-", "year", " ", "Federal", " ", "bonds">>, FALSE),
               Pat(FALSE, <<"7", "-", "jaehrige", " ", "Bundesanleihen">>, FALSE) >>,
        parent_section |-> <<>>],
       [code |-> <<"GFB", ".", "BORR", ".", "BREAKDEPTTYPE", ".", "FEDNOTE", ".", "M">>,
        description |-> <<"Gross", " ", "Borrowing", " ", "Requirement", ":", " ", "Breakdown", " ", "by", " ", "debt", " ", "type", ":", " ", "Federal", " ", "notes">>,
        search_patterns |->
            << Pat(TRUE, <<"Federal", " ", "notes">>, TRUE),
               Pat(TRUE, <<"Bundesobligationen">>, TRUE) >>,
        parent_section |-> <<>>],
       [code |-> <<"GFB", ".", "BORR", ".", "BREAKDEPTTYPE", ".", "FEDTREASNOTE", ".", "M">>,
        description |-> <<"Gross", " ", "Borrowing", " ", "Requirement", ":", " ", "Breakdown", " ", "by", " ", "debt", " ", "type", ":", " ", "Federal", " ", "Treasury", " ", "notes">>,
        search_patterns |->
            << Pat(FALSE, <<"Federal", " ", "Treasury", " ", "notes">>, FALSE),
               Pat(FALSE, <<"Bundesschatzanweisungen">>, FALSE) >>,
        parent_section |-> <<>>],
       [code |-> <<"GFB", ".", "BORR", ".", "BREAKDEPTTYPE", ".", "TREASDISCPAP", ".", "M">>,
        description |-> <<"Gross", " ", "Borrowing", " ", "Requirement", ":", " ", "Breakdown", " ", "by", " ", "debt", " ", "type", ":", " ", "Treasury", " ", "discount", " ", "paper">>,
        search_patterns |->
            << Pat(FALSE, <<"Treasury", " ", "discount", " ", "paper">>, FALSE),
               Pat(FALSE, <<"Unverzinsliche", " ", "Schatzanweisungen">>, FALSE) >>,
        parent_section |-> <<>>],
       [code |-> <<"GFB", ".", "BORR", ".", "BREAKDEPTTYPE", ".", "INFFEDSEC", ".", "M">>,
        description |-> <<"Gross", " ", "Borrowing", " ", "Requirement", ":", " ", "Breakdown", " ", "by", " ", "debt", " ", "type", ":", " ", "Inflation", "-", "linked", " ", "Federal", " ", "securities">>,
        search_patterns |->
            << Pat(FALSE, <<"Inflation", "-", "linked", " ", "Federal", " ", "securities">>, FALSE),
               Pat(FALSE, <<"Inflationsindexierte", " ", "Bundeswertpapiere">>, FALSE) >>,
        parent_section |-> <<>>],
       [code |-> <<"GFB", ".", "BORR", ".", "BREAKDEPTTYPE", ".", "GREENFEDSEC", ".", "M">>,
        description |-> <<"Gross", " ", "Borrowing", " ", "Requirement", ":", " ", "Breakdown", " ", "by", " ", "debt", " ", "type", ":", " ", "Green", " ", "Federal", " ", "securities">>,
        search_patterns |->
            << Pat(FALSE, <<"Green", " ", "Federal", " ", "securities">>, FALSE),
               Pat(FALSE, <<"Gruene", " ", "Bundeswertpapiere">>, FALSE) >>,
        parent_section |-> <<>>],
       [code |-> <<"GFB", ".", "BORR", ".", "BREAKDEPTTYPE", ".", "SUPSECFEDGOV", ".", "M">>,
        description |-> <<"Gross", " ", "Borrowing", " ", "Requirement", ":", " ", "Breakdown", " ", "by", " ", "debt", " ", "type", ":", " ", "Supplementary", " ", "securities", " ", "issued", " ", "by", " ", "the", " ", "federal", " ", "government">>,
        search_patterns |->
            << Pat(FALSE, <<"Supplementary", " ", "securities", " ", "issued", " ", "by", " ", "the", " ", "federal", " ", "government">>, FALSE),
               Pat(FALSE, <<"Ergaenzungswertpapiere", " ", "des", " ", "Bundes">>, FALSE) >>,
        parent_section |-> <<>>],
       [code |-> <<"GFB", ".", "BORR", ".", "BREAKDEPTTYPE", ".", "LOANSUPFEDGOV", ".", "M">>,
        description |-> <<"Gross", " ", "Borrowing", " ", "Requirement", ":", " ", "Breakdown", " ", "by", " ", "debt", " ", "type", ":", " ", "Loans", " ", "from", " ", "suppl", ".", " ", "issues", " ", "by", " ", "the", " ", "federal", " ", "government", " ", "for", " ", "the", " ", "ESF", " ", "acc", ".", " ", "to", " ", "sect", ".", " ", "26b", " ", "StFG">>,
        search_patterns |->
            << PatSeq(FALSE, <<"Loans", " ", "from", " ", "suppl">>, << <<"federal", " ", "government", " ", "for", " ", "the", " ", "ESF">>, <<"26b">> >>, FALSE),
               PatSeq(FALSE, <<"Darlehen", " ", "aus", " ", "Ergaenzungsemissionen">>, << <<"WSF">>, <<"26b">> >>, FALSE) >>,
        parent_section |-> <<>>],
       [code |-> <<"GFB", ".", "BORR", ".", "BREAKDEPTTYPE", ".", "ESFINVFEDGOVSEC", ".", "M">>,
        description |-> <<"Gross", " ", "Borrowing", " ", "Requirement", ":", " ", "Breakdown", " ", "by", " ", "debt", " ", "type", ":", " ", "ESF", " ", "investment", " ", "in", " ", "federal", " ", "government", " ", "securities", " ", "acc", ".", " ", "to", " ", "sect", ".", " ", "26b", " ", "(", "5", ")", " ", "StFG">>,
        search_patterns |->
            << PatSeq(FALSE, <<"ESF", " ", "investment", " ", "in", " ", "federal", " ", "government", " ", "securities">>, << <<"26b">>, <<"5">> >>, FALSE),
               PatSeq(FALSE, <<"WSF", "-", "Anlage", " ", "in", " ", "Bundeswertpapieren">>, << <<"26b">>, <<"5">> >>, FALSE) >>,
        parent_section |-> <<>>],
       [code |-> <<"GFB", ".", "BORR", ".", "BREAKDEPTTYPE", ".", "OTHERFEDSEC", ".", "M">>,
        description |-> <<"Gross", " ", "Borrowing", " ", "Requirement", ":", " ", "Breakdown", " ", "by", " ", "debt", " ", "type", ":", " ", "Other", " ", "Federal", " ", "securities">>,
        search_patterns |->
            << Pat(FALSE, <<"Other", " ", "Federal", " ", "securities">>, FALSE),
               Pat(FALSE, <<"Sonstige", " ", "Bundeswertpapiere">>, FALSE) >>,
        parent_section |-> <<>>],
       [code |-> <<"GFB", ".", "BORR", ".", "BREAKDEPTTYPE", ".", "PROMNOTE", ".", "M">>,
        description |-> <<"Gross", " ", "Borrowing", " ", "Requirement", ":", " ", "Breakdown", " ", "by", " ", "debt", " ", "type", ":", " ", "Promissory", " ", "notes">>,
        search_patterns |->
            << Pat(TRUE, <<"Promissory", " ", "notes">>, TRUE),
               Pat(TRUE, <<"Schuldscheindarlehen">>, TRUE) >>,
        parent_section |-> <<>>],
       [code |-> <<"GFB", ".", "BORR", ".", "BREAKDEPTTYPE", ".", "OTHERLOANORDDEPT", ".", "M">>,
        description |-> <<"Gross", " ", "Borrowing", " ", "Requirement", ":", " ", "Breakdown", " ", "by", " ", "debt", " ", "type", ":", " ", "Other", " ", "loans", " ", "and", " ", "ordinary", " ", "debts">>,
        search_patterns |->
            << Pat(FALSE, <<"Other", " ", "loans", " ", "and", " ", "ordinary", " ", "debts">>, FALSE),
               Pat(FALSE, <<"Sonstige", " ", "Darlehen", " ", "und", " ", "gewoehnliche", " ", "Schulden">>, FALSE) >>,
        parent_section |-> <<>>],
       [code |-> <<"GFB", ".", "BORR", ".", "OWNHOLD", ".", "M">>,
        description |-> <<"Gross", " ", "Borrowing", " ", "Requirement", ":", " ", "Own", " ", "holdings">>,
        search_patterns |->
            << Pat(TRUE, <<"Own", " ", "holdings">>, TRUE),
               Pat(TRUE, <<"Eigenbestand">>, TRUE) >>,
        parent_section |-> <<>>],
       [code |-> <<"GFB", ".", "BORR", ".", "OWNHOLD", ".", "CONVFEDSEC", ".", "M">>,
        description |-> <<"Gross", " ", "Borrowing", " ", "Requirement", ":", " ", "Own", " ", "holdings", ":", " ", "Conventional", " ", "Federal", " ", "securities">>,
        search_patterns |->
            << Pat(TRUE, <<"Conventional", " ", "Federal", " ", "securities">>, TRUE),
               Pat(TRUE, <<"Konventionelle", " ", "Bundeswertpapiere">>, TRUE) >>,
        parent_section |-> <<"Own", " ", "holdings">>],
       [code |-> <<"GFB", ".", "BORR", ".", "OWNHOLD", ".", "30YFEDBOND", ".", "M">>,
        description |-> <<"Gross", " ", "Borrowing", " ", "Requirement", ":", " ", "Own", " ", "holdings", ":", " ", "30", "-", "year", " ", "Federal", " ", "bonds">>,
        search_patterns |->
            << Pat(TRUE, <<"30", "-", "year", " ", "Federal", " ", "bonds">>, TRUE),
               Pat(TRUE, <<"30", "-", "jaehrige", " ", "Bundesanleihen">>, TRUE) >>,
        parent_section |-> <<"Own", " ", "holdings">>],
       [code |-> <<"GFB", ".", "BORR", ".", "OWNHOLD", ".", "15YFEDBOND", ".", "M">>,
        description |-> <<"Gross", " ", "Borrowing", " ", "Requirement", ":", " ", "Own", " ", "holdings", ":", " ", "15", "-", "year", " ", "Federal", " ", "bonds">>,
        search_patterns |->
            << Pat(TRUE, <<"15", "-", "year", " ", "Federal", " ", "bonds">>, TRUE),
               Pat(TRUE, <<"15", "-", "jaehrige", " ", "Bundesanleihen">>, TRUE) >>,
        parent_section |-> <<"Own", " ", "holdings">>],
       [code |-> <<"GFB", ".", "BORR", ".", "OWNHOLD", ".", "10YFEDBOND", ".", "M">>,
        description |-> <<"Gross", " ", "Borrowing", " ", "Requirement", ":", " ", "Own", " ", "holdings", ":", " ", "10", "-", "year", " ", "Federal", " ", "bonds">>,
        search_patterns |->
            << Pat(TRUE, <<"10", "-", "year", " ", "Federal", " ", "bonds">>, TRUE),
               Pat(TRUE, <<"10", "-", "jaehrige", " ", "Bundesanleihen">>, TRUE) >>,
        parent_section |-> <<"Own", " ", "holdings">>],
       [code |-> <<"GFB", ".", "BORR", ".", "OWNHOLD", ".", "7YFEDBOND", ".", "M">>,
        description |-> <<"Gross", " ", "Borrowing", " ", "Requirement", ":", " ", "Own", " ", "holdings", ":", " ", "7", "-", "year", " ", "Federal", " ", "bonds">>,
        search_patterns |->
            << Pat(TRUE, <<"7", "-", "year", " ", "Federal", " ", "bonds">>, TRUE),
               Pat(TRUE, <<"7", "-", "jaehrige", " ", "Bundesanleihen">>, TRUE) >>,
        parent_section |-> <<"Own", " ", "holdings">>],
       [code |-> <<"GFB", ".", "BORR", ".", "OWNHOLD", ".", "FEDNOTE", ".", "M">>,
        description |-> <<"Gross", " ", "Borrowing", " ", "Requirement", ":", " ", "Own", " ", "holdings", ":", " ", "Federal", " ", "notes">>,
        search_patterns |->
            << Pat(TRUE, <<"Federal", " ", "notes">>, TRUE),
               Pat(TRUE, <<"Bundesobligationen">>, TRUE) >>,
        parent_section |-> <<"Own", " ", "holdings">>],
       [code |-> <<"GFB", ".", "BORR", ".", "OWNHOLD", ".", "FEDTREASNOTE", ".", "M">>,
        description |-> <<"Gross", " ", "Borrowing", " ", "Requirement", ":", " ", "Own", " ", "holdings", ":", " ", "Federal", " ", "Treasury", " ", "notes">>,
        search_patterns |->
            << Pat(TRUE, <<"Federal", " ", "Treasury", " ", "notes">>, TRUE),
               Pat(TRUE, <<"Bundesschatzanweisungen">>, TRUE) >>,
        parent_section |-> <<"Own", " ", "holdings">>],
       [code |-> <<"GFB", ".", "BORR", ".", "OWNHOLD", ".", "TREASDISCPAP", ".", "M">>,
        description |-> <<"Gross", " ", "Borrowing", " ", "Requirement", ":", " ", "Own", " ", "holdings", ":", " ", "Treasury", " ", "discount", " ", "paper">>,
        search_patterns |->
            << Pat(TRUE, <<"Treasury", " ", "discount", " ", "paper">>, TRUE),
               Pat(TRUE, <<"Unverzinsliche", " ", "Schatzanweisungen">>, TRUE) >>,
        parent_section |-> <<"Own", " ", "holdings">>],
       [code |-> <<"GFB", ".", "BORR", ".", "OWNHOLD", ".", "INFFEDSEC", ".", "M">>,
        description |-> <<"Gross", " ", "Borrowing", " ", "Requirement", ":", " ", "Own", " ", "holdings", ":", " ", "Inflation", "-", "linked", " ", "Federal", " ", "securities">>,
        search_patterns |->
            << Pat(TRUE, <<"Inflation", "-", "linked", " ", "Federal", " ", "securities">>, TRUE),
               Pat(TRUE, <<"Inflationsindexierte", " ", "Bundeswertpapiere">>, TRUE) >>,
        parent_section |-> <<"Own", " ", "holdings">>],
       [code |-> <<"GFB", ".", "BORR", ".", "OWNHOLD", ".", "GREENFEDSEC", ".", "M">>,
        description |-> <<"Gross", " ", "Borrowing", " ", "Requirement", ":", " ", "Own", " ", "holdings", ":", " ", "Green", " ", "Federal", " ", "securities">>,
        search_patterns |->
            << Pat(TRUE, <<"Green", " ", "Federal", " ", "securities">>, TRUE),
               Pat(TRUE, <<"Gruene", " ", "Bundeswertpapiere">>, TRUE) >>,
        parent_section |-> <<"Own", " ", "holdings">>],
       [code |-> <<"GFB", ".", "BORR", ".", "OWNHOLD", ".", "OTHERFEDSEC", ".", "M">>,
        description |-> <<"Gross", " ", "Borrowing", " ", "Requirement", ":", " ", "Own", " ", "holdings", ":", " ", "Other", " ", "Federal", " ", "securities">>,
        search_patterns |->
            << Pat(TRUE, <<"Other", " ", "Federal", " ", "securities">>, TRUE),
               Pat(TRUE, <<"Sonstige", " ", "Bundeswertpapiere">>, TRUE) >>,
        parent_section |-> <<"Own", " ", "holdings">>],
       [code |-> <<"GFB", ".", "BORR", ".", "ESFINVFEDGOVSEC", ".", "M">>,
        description |-> <<"Gross", " ", "Borrowing", " ", "Requirement", ":", " ", "ESF", " ", "investment", " ", "in", " ", "federal", " ", "government", " ", "securities", " ", "acc", ".", " ", "to", " ", "sect", ".", " ", "26b", " ", "(", "5", ")", " ", "StFG">>,
        search_patterns |->
            << PatSeq(TRUE, <<"ESF", " ", "investment", " ", "in", " ", "federal", " ", "government", " ", "securities">>, << <<"26b">>, <<"5">> >>, FALSE),
               PatSeq(TRUE, <<"WSF", "-", "Anlage", " ", "in", " ", "Bundeswertpapieren">>, << <<"26b">>, <<"5">> >>, FALSE) >>,
        parent_section |-> <<>>] >>

\* variant: only the prefix "Gross Borrowing Requirement:" is replaced
redemption_measures_PrefixOnly ==
    [i \in 1..Len(borrowing_measures) |->
        LET measure == borrowing_measures[i]
        IN  [code |-> Replace(measure.code, <<"BORR">>, <<"REDEM">>),
             description |->
                 Replace(measure.description,
                         <<"Gross", " ", "Borrowing", " ", "Requirement", ":">>,
                         <<"Redemption", " ", "Payments", ":">>),
             search_patterns |-> measure.search_patterns,
             parent_section |-> measure.parent_section]]

\* the redemption measures: copies with the code and description rewritten
\* (lines 551-562)
redemption_measures ==
    [i \in 1..Len(borrowing_measures) |->
        LET measure == borrowing_measures[i]
        IN  [code |-> Replace(measure.code, <<"BORR">>, <<"REDEM">>),
             description |->
                 Replace(Replace(measure.description,
                                 <<"Gross", " ", "Borrowing", " ", "Requirement", ":">>,
                                 <<"Redemption", " ", "Payments", ":">>),
                         <<" ", "Financing", " ", "Federal", " ", "budget">>,
                         <<"Redemption", " ", "Payments", ":", " ", "Financing", " ", "Federal", " ", "budget">>),
             search_patterns |-> measure.search_patterns,
             parent_section |-> measure.parent_section]]

\* ---- the measures whose labels the sheets below carry ----
FEDBUDGET == 4
FEDBOND == 26
OWNHOLD_30YFEDBOND == 44
TrackedMeasures == {FEDBUDGET, FEDBOND, OWNHOLD_30YFEDBOND}

\* search_patterns of a measure of the catalog
MeasurePatterns(i) == borrowing_measures[i].search_patterns

\* parent_section of a measure, <<>> when it has none
MeasureParent(i) == borrowing_measures[i].parent_section

\* the rows build_config stores for the tracked measures of a sheet
StoredRows(d) ==
    [i \in TrackedMeasures |->
        find_text_in_sheet(d, MeasurePatterns(i), find_date_row(d) + 1, MeasureParent(i))]

\* ---- inputs of the extractor ----
\* the label of row r when the labels sit shift rows below the rows of
\* borrowing_row_mapping; renamed labels match no pattern
SheetLabel(r, shift, renamed) ==
    IF r <= DATE_ROW THEN NaN
    ELSE IF r - shift \notin {17, 39, 40, 89, 91} THEN Str(<<"Item">>)
    ELSE IF renamed THEN Str(<<"Renamed", " ", "item">>)
    ELSE CASE r - shift = 17 -> Str(<<"Federal", " ", "budget">>)
           [] r - shift = 39 -> Str(<<"Federal", " ", "bonds">>)
           [] r - shift = 89 -> Str(<<"Own", " ", "holdings">>)
           [] OTHER -> Str(<<"30", "-", "year", " ", "Federal", " ", "bonds">>)

\* the value cell at row r, column c
ValueCell(r, c, seed) ==
    LET kind == (r + c + seed) % 6
    IN  CASE kind = 0 -> IntCell(10 * r + c)
          [] kind = 1 -> FloatCell(10 * r + c, 5)
          [] kind = 2 -> NaN
          [] kind = 3 -> Str(<<"n", "/", "a">>)
          [] kind = 4 -> FloatCell(10 * r + c, 0)
          [] OTHER -> Str(<<"12">>)

\* the cell of the date row at column c, by kind: empty, a datetime, or a
\* text (a month name and year in odd columns, no date in even columns)
DateCell(kind, c) ==
    CASE kind = 0 -> NaN
      [] kind = 1 -> DateTime(c)
      [] c % 2 = 1 -> Str(<<MonthName[c], " ", "2024">>)
      [] OTHER -> Str(<<"Period", " ", MonthSym[c]>>)

Sheet(nrows, ncols, date_kinds, seed, shift, renamed) ==
    [i \in 1..nrows |->
        [j \in 1..(ncols + 1) |->
            LET r == i - 1
                c == j - 1
            IN  IF c = 0 THEN SheetLabel(r, shift, renamed)
                ELSE IF r < DATE_ROW THEN NaN
                ELSE IF r = DATE_ROW THEN DateCell(date_kinds[c], c)
                ELSE ValueCell(r, c, seed)]]

\* <<shift when the config was built, shift now, labels renamed now>>
DriftCases ==
    { <<0, 0, FALSE>>, <<0, MaxShift, FALSE>>, <<0, 0, TRUE>>, <<MaxShift, MaxShift, TRUE>> }

ResolverIdle ==
    /\ df = <<>>
    /\ search_patterns = <<>>
    /\ start_row = 0
    /\ parent_section = <<>>
    /\ row_idx = 0
    /\ result = None
    /\ tested = <<>>
    /\ rpc = "idle"

\* the grid of the end-to-end scenario: three periods in the date row, the
\* measure "Federal budget" with the values 100, 200.5 and an empty cell
ScenarioGrid(date_at, measure_at, nrows) ==
    [i \in 1..nrows |->
        LET r == i - 1
        IN  IF r = date_at
            THEN <<NaN, Str(StrfTime(1)), Str(StrfTime(2)), Str(StrfTime(3))>>
            ELSE IF r = measure_at
            THEN <<Str(<<"Federal", " ", "budget">>), IntCell(100), FloatCell(200, 5), NaN>>
            ELSE <<NaN, NaN, NaN, NaN>>]

\* the scenario with the measure on row 5, as a sheet of 6 rows and as a
\* sheet of full height
ScenarioGrids == {ScenarioGrid(4, 5, 6), ScenarioGrid(4, 5, MaxSheetRows)}

InitExtract ==
    /\ ResolverIdle
    /\ BuilderIdle
    /\ BatchIdle
    /\ OrchestratorIdle
    /\ DownloaderIdle
    /\ \/ \E nrows \in {DATE_ROW, DATE_ROW + 1, 40, MaxSheetRows},
             date_kinds \in [1..MaxDateCols -> 0..2],
             seed \in 0..MaxSeed,
             drift \in DriftCases :
               /\ borrowing_df = Sheet(nrows, MaxDateCols, date_kinds, seed, drift[2], drift[3])
               /\ redemptions_df =
                     IF seed % 2 = 0
                     THEN Sheet(20, MaxDateCols - 1, date_kinds, seed + 1, drift[2], drift[3])
                     ELSE Sheet(MaxSheetRows, MaxDateCols, date_kinds, seed + 1, drift[2], drift[3])
               /\ gfb_config =
                     StoredRows(Sheet(MaxSheetRows, 0, date_kinds, seed, drift[1], FALSE))
       \/ /\ borrowing_df \in ScenarioGrids
          /\ redemptions_df = borrowing_df
          /\ gfb_config = StoredRows(borrowing_df)
    /\ dates = <<>>
    /\ borrowing_data = <<>>
    /\ redemption_data = <<>>
    /\ output_data = <<>>
    /\ formatted_data = <<>>
    /\ epc = "start"

NextExtract ==
    \/ DateRowMissing
    \/ ExtractDates
    \/ ExtractBorrowing
    \/ ExtractRedemption
    \/ Assemble
    \/ FormatNumbers

SpecExtract == InitExtract /\ [][NextExtract]_vars

\* ------------------------------------------------------------------------
\* build_config and save_config (build_config.py): the Mapping Builder
\* ------------------------------------------------------------------------
\* json.dump writes null, a number or a string
JNull == [j |-> "null", v |-> <<>>]
JNum(n) == [j |-> "number", v |-> n]
JStr(t) == [j |-> "string", v |-> t]

\* os.path.basename(path)
Basename(path) ==
    LET slashes == {i \in 1..Len(path) : path[i] = "/"}
    IN  IF slashes = {} THEN path
        ELSE SubSeq(path, (CHOOSE i \in slashes : \A k \in slashes : k <= i) + 1, Len(path))

\* datetime.isoformat() of the time t
IsoFormat(t) == <<"2024-01-01T00:00:00", ".", t>>

\* the record appended for a measure (lines 621-627, 649-655)
MappingEntry(measure, row, label) ==
    [code |-> measure.code,
     description |-> measure.description,
     search_patterns |-> measure.search_patterns,
     source_row |-> row,
     source_label |-> label]

\* variant: the entry of a measure that is not found carries row 0
MapMeasure_ZeroWhenMissing(d, date_row, measure) ==
    LET found == find_text_in_sheet(d, measure.search_patterns, date_row + 1,
                                    measure.parent_section)
    IN  IF found # None
        THEN MappingEntry(measure, found, Str(clean_text(Iloc(d, found, 0))))
        ELSE MappingEntry(measure, 0, Str(<<>>))

\* one pass of the loop body: resolve the measure, read its label
\* (lines 605-627, 633-655)
MapMeasure(d, date_row, measure) ==
    LET found == find_text_in_sheet(d, measure.search_patterns, date_row + 1,
                                    measure.parent_section)
    IN  IF found # None
        THEN MappingEntry(measure, found, Str(clean_text(Iloc(d, found, 0))))
        ELSE MappingEntry(measure, None, NoneCell)

\* sum(1 for m in mappings if m["source_row"] is not None)
FoundCount(mappings) == Len(SelectSeq(mappings, LAMBDA e : e.source_row # None))

\* json.dump of one entry
SerializeEntry(e) ==
    [code |-> JStr(e.code),
     description |-> JStr(e.description),
     search_patterns |-> [i \in 1..Len(e.search_patterns) |-> JStr(e.search_patterns[i])],
     source_row |-> IF e.source_row = None THEN JNull ELSE JNum(e.source_row),
     source_label |-> IF e.source_label.k = "none" THEN JNull ELSE JStr(e.source_label.s)]

\* json.dump of a sheet block
SerializeSheet(b) ==
    [name |-> JStr(b.name),
     date_row |-> JNum(b.date_row),
     date_column_start |-> JNum(b.date_column_start),
     measures |-> [i \in 1..Len(b.measures) |-> SerializeEntry(b.measures[i])]]

\* json.dump(config, f, indent=2, ensure_ascii=False)
Serialize(c) ==
    [version |-> JStr(c.version),
     created |-> JStr(c.created),
     source_file |-> JStr(c.source_file),
     borrowing_sheet |-> SerializeSheet(c.borrowing_sheet),
     redemption_sheet |-> SerializeSheet(c.redemption_sheet)]

\* the file build_config is run on
source_file == <<"gfb_downloads", "/", "GFB", ".", "xlsx">>

BuilderFrame ==
    UNCHANGED <<rvars, mvars, ovars, dvars, borrowing_df, redemptions_df, dates, borrowing_data,
                redemption_data, output_data, formatted_data, epc>>

\* variant: the list of the previous run is kept
BeginBuild_KeepMappings ==
    /\ bpc = "start"
    /\ borrowing_date_row' = find_date_row(borrowing_df)
    /\ redemption_date_row' = find_date_row(redemptions_df)
    /\ measure_pos' = 1
    /\ bpc' = "borrowing"
    /\ UNCHANGED <<borrowing_mappings, redemption_mappings, config, summary, clock, history,
                   gfb_config>>
    /\ BuilderFrame

\* lines 582-602: the sheets are read, the date rows located, the list emptied
BeginBuild ==
    /\ bpc = "start"
    /\ borrowing_date_row' = find_date_row(borrowing_df)
    /\ redemption_date_row' = find_date_row(redemptions_df)
    /\ borrowing_mappings' = <<>>
    /\ measure_pos' = 1
    /\ bpc' = "borrowing"
    /\ UNCHANGED <<redemption_mappings, config, summary, clock, history, gfb_config>>
    /\ BuilderFrame

\* variant: a measure that is not found gets no entry
MapBorrowing_SkipMissing ==
    /\ bpc = "borrowing"
    /\ measure_pos <= Len(borrowing_measures)
    /\ borrowing_mappings' =
          LET entry == MapMeasure(borrowing_df, borrowing_date_row,
                                  borrowing_measures[measure_pos])
          IN  IF entry.source_row = None THEN borrowing_mappings
              ELSE Append(borrowing_mappings, entry)
    /\ measure_pos' = measure_pos + 1
    /\ UNCHANGED <<borrowing_date_row, redemption_date_row, redemption_mappings, config,
                   summary, clock, history, bpc, gfb_config>>
    /\ BuilderFrame

\* lines 603-627: one iteration of the borrowing loop
MapBorrowing ==
    /\ bpc = "borrowing"
    /\ measure_pos <= Len(borrowing_measures)
    /\ borrowing_mappings' =
          Append(borrowing_mappings,
                 MapMeasure(borrowing_df, borrowing_date_row, borrowing_measures[measure_pos]))
    /\ measure_pos' = measure_pos + 1
    /\ UNCHANGED <<borrowing_date_row, redemption_date_row, redemption_mappings, config,
                   summary, clock, history, bpc, gfb_config>>
    /\ BuilderFrame

\* lines 629-630: the borrowing loop is over, the redemption list is emptied
BeginRedemption ==
    /\ bpc = "borrowing"
    /\ measure_pos > Len(borrowing_measures)
    /\ redemption_mappings' = <<>>
    /\ measure_pos' = 1
    /\ bpc' = "redemption"
    /\ UNCHANGED <<borrowing_date_row, redemption_date_row, borrowing_mappings, config,
                   summary, clock, history, gfb_config>>
    /\ BuilderFrame

\* lines 631-655: one iteration of the redemption loop
MapRedemption ==
    /\ bpc = "redemption"
    /\ measure_pos <= Len(redemption_measures)
    /\ redemption_mappings' =
          Append(redemption_mappings,
                 MapMeasure(redemptions_df, redemption_date_row, redemption_measures[measure_pos]))
    /\ measure_pos' = measure_pos + 1
    /\ UNCHANGED <<borrowing_date_row, redemption_date_row, borrowing_mappings, config,
                   summary, clock, history, bpc, gfb_config>>
    /\ BuilderFrame

\* variant: the version carries the time of the run
MakeConfig_TimedVersion ==
    /\ bpc = "redemption"
    /\ measure_pos > Len(redemption_measures)
    /\ config' =
          [version |-> IsoFormat(clock),
           created |-> IsoFormat(clock),
           source_file |-> Basename(source_file),
           borrowing_sheet |->
               [name |-> <<"rpgBorrowing">>, date_row |-> borrowing_date_row,
                date_column_start |-> 1, measures |-> borrowing_mappings],
           redemption_sheet |->
               [name |-> <<"rpgRedemptions">>, date_row |-> redemption_date_row,
                date_column_start |-> 1, measures |-> redemption_mappings]]
    /\ bpc' = "summary"
    /\ UNCHANGED <<borrowing_date_row, redemption_date_row, measure_pos, borrowing_mappings,
                   redemption_mappings, summary, clock, history, gfb_config>>
    /\ BuilderFrame

\* lines 657-674: the Mapping is put together
MakeConfig ==
    /\ bpc = "redemption"
    /\ measure_pos > Len(redemption_measures)
    /\ config' =
          [version |-> <<"1", ".", "0">>,
           created |-> IsoFormat(clock),
           source_file |-> Basename(source_file),
           borrowing_sheet |->
               [name |-> <<"rpgBorrowing">>, date_row |-> borrowing_date_row,
                date_column_start |-> 1, measures |-> borrowing_mappings],
           redemption_sheet |->
               [name |-> <<"rpgRedemptions">>, date_row |-> redemption_date_row,
                date_column_start |-> 1, measures |-> redemption_mappings]]
    /\ bpc' = "summary"
    /\ UNCHANGED <<borrowing_date_row, redemption_date_row, measure_pos, borrowing_mappings,
                   redemption_mappings, summary, clock, history, gfb_config>>
    /\ BuilderFrame

\* variant: the summary counts every entry as found
Summarize_CountAll ==
    /\ bpc = "summary"
    /\ summary' =
          [borr_found |-> Len(borrowing_mappings), borr_total |-> Len(borrowing_mappings),
           redem_found |-> Len(redemption_mappings), redem_total |-> Len(redemption_mappings),
           warning |-> FALSE]
    /\ bpc' = "built"
    /\ UNCHANGED <<borrowing_date_row, redemption_date_row, measure_pos, borrowing_mappings,
                   redemption_mappings, config, clock, history, gfb_config>>
    /\ BuilderFrame

\* lines 676-693: the summary is printed and the Mapping returned
Summarize ==
    /\ bpc = "summary"
    /\ summary' =
          LET borr_found == FoundCount(borrowing_mappings)
              redem_found == FoundCount(redemption_mappings)
          IN  [borr_found |-> borr_found, borr_total |-> Len(borrowing_mappings),
               redem_found |-> redem_found, redem_total |-> Len(redemption_mappings),
               warning |-> \/ borr_found < Len(borrowing_mappings)
                           \/ redem_found < Len(redemption_mappings)]
    /\ bpc' = "built"
    /\ UNCHANGED <<borrowing_date_row, redemption_date_row, measure_pos, borrowing_mappings,
                   redemption_mappings, config, clock, history, gfb_config>>
    /\ BuilderFrame

\* lines 696-706, 726: the Mapping is written to gfb_config.json
SaveConfig ==
    /\ bpc = "built"
    /\ gfb_config' = Serialize(config)
    /\ history' = Append(history, [config |-> config, document |-> Serialize(config)])
    /\ bpc' = "saved"
    /\ UNCHANGED <<borrowing_date_row, redemption_date_row, measure_pos, borrowing_mappings,
                   redemption_mappings, config, summary, clock>>
    /\ BuilderFrame

\* the builder is run again, later, on the same file
RunAgain ==
    /\ bpc = "saved"
    /\ Len(history) < MaxRuns
    /\ clock' = clock + 1
    /\ bpc' = "start"
    /\ UNCHANGED <<borrowing_date_row, redemption_date_row, measure_pos, borrowing_mappings,
                   redemption_mappings, config, summary, history, gfb_config>>
    /\ BuilderFrame

\* ---- inputs of the Mapping Builder ----
\* the label a reference sheet carries for each borrowing measure
RefLabels ==
    << <<"Financing", " ", "Federal", " ", "budget", ",", " ", "special", " ", "funds", ";", " ", "loan", " ", "financing", " ", "FMS", " ", "&", " ", "ESF">>,
       <<"Financing", " ", "Federal", " ", "budget", " ", "and", " ", "special", " ", "funds">>,
       <<"Breakdown", " ", "by", " ", "purpose">>,
       <<"Federal", " ", "budget">>,
       <<"Financial", " ", "Market", " ", "Stabilisation", " ", "Fund">>,
       <<"FMS", " ", "loans", " ", "for", " ", "expenses", " ", "acc", ".", " ", "to", " ", "section", " ", "9", " ", "(", "1", ")", " ", " ", "StFG">>,
       <<"FMS", " ", "loans", " ", "for", " ", "wind", "-", "up", " ", "agencies", " ", "acc", ".", " ", "to", " ", "section", " ", "9", " ", "(", "5", ")", " ", " ", "StFG">>,
       <<"Investment", " ", "and", " ", "Redemption", " ", "Fund">>,
       <<"Economic", " ", "Stabilisation", " ", "Fund">>,
       <<"ESF", " ", "loans", " ", "for", " ", "recapitalisation", " ", "measures", " ", "acc", ".", " ", "to", " ", "section", " ", "22", " ", "StFG">>,
       <<"ESF", " ", "loans", " ", "for", " ", "KfW", " ", "acc", ".", " ", "to", " ", "section", " ", "23", " ", "StFG">>,
       <<"ESF", " ", "loans", " ", "to", " ", "mitigate", " ", "consequences", " ", "of", " ", "the", " ", "energy", " ", "crisis", " ", "acc", ".", " ", "to", " ", "sect", ".", " ", "26a", " ", "(", "1", ")", " ", "no", ".", " ", "1", "-", "4", " ", "StFG">>,
       <<"ESF", " ", "loans", " ", "to", " ", "KfW", " ", "acc", ".", " ", "to", " ", "section", " ", "26a", " ", "(", "1", ")", " ", "no", " ", "5", " ", "StFG">>,
       <<"Special", " ", "Fund", " ", "for", " ", "the", " ", "Bundeswehr">>,
       <<"Restructuring", " ", "Fund">>,
       <<"Hard", " ", "Coal", " ", "Equalisation", " ", "Fund">>,
       <<"Federal", " ", "Railways", " ", "Fund">>,
       <<"Compensation", " ", "Fund">>,
       <<"Redemption", " ", "Fund", " ", "for", " ", "Inherited", " ", "Liabilities">>,
       <<"ERP", " ", "Special", " ", "Fund">>,
       <<"German", " ", "Unity", " ", "Fund">>,
       <<"Equalisation", " ", "of", " ", "Burdens", " ", "Fund">>,
       <<"Breakdown", " ", "by", " ", "debt", " ", "type">>,
       <<"Federal", " ", "securities">>,
       <<"Conventional", " ", "Federal", " ", "securities">>,
       <<"Federal", " ", "bonds">>,
       <<"30", "-", "year", " ", "Federal", " ", "bonds">>,
       <<"15", "-", "year", " ", "Federal", " ", "bonds">>,
       <<"10", "-", "year", " ", "Federal", " ", "bonds">>,
       <<"7", "-", "year", " ", "Federal", " ", "bonds">>,
       <<"Federal", " ", "notes">>,
       <<"Federal", " ", "Treasury", " ", "notes">>,
       <<"Treasury", " ", "discount", " ", "paper">>,
       <<"Inflation", "-", "linked", " ", "Federal", " ", "securities">>,
       <<"Green", " ", "Federal", " ", "securities">>,
       <<"Supplementary", " ", "securities", " ", "issued", " ", "by", " ", "the", " ", "federal", " ", "government">>,
       <<"Loans", " ", "from", " ", "suppl", ".", " ", "issues", " ", "by", " ", "the", " ", "federal", " ", "government", " ", "for", " ", "the", " ", "ESF", " ", "acc", ".", " ", "to", " ", "sect", ".", " ", "26b", " ", "StFG">>,
       <<"ESF", " ", "investment", " ", "in", " ", "federal", " ", "government", " ", "securities", " ", "acc", ".", " ", "to", " ", "sect", ".", " ", "26b", " ", "(", "5", ")", " ", "StFG">>,
       <<"Other", " ", "Federal", " ", "securities">>,
       <<"Promissory", " ", "notes">>,
       <<"Other", " ", "loans", " ", "and", " ", "ordinary", " ", "debts">>,
       <<"Own", " ", "holdings">>,
       <<"Conventional", " ", "Federal", " ", "securities">>,
       <<"30", "-", "year", " ", "Federal", " ", "bonds">>,
       <<"15", "-", "year", " ", "Federal", " ", "bonds">>,
       <<"10", "-", "year", " ", "Federal", " ", "bonds">>,
       <<"7", "-", "year", " ", "Federal", " ", "bonds">>,
       <<"Federal", " ", "notes">>,
       <<"Federal", " ", "Treasury", " ", "notes">>,
       <<"Treasury", " ", "discount", " ", "paper">>,
       <<"Inflation", "-", "linked", " ", "Federal", " ", "securities">>,
       <<"Green", " ", "Federal", " ", "securities">>,
       <<"Other", " ", "Federal", " ", "securities">>,
       <<"ESF", " ", "investment", " ", "in", " ", "federal", " ", "government", " ", "securities", " ", "acc", ".", " ", "to", " ", "sect", ".", " ", "26b", " ", "(", "5", ")", " ", "StFG">> >>

\* the label offset rows below the date row of a reference sheet
RefLabel(offset) ==
    LET at == {i \in 1..Len(borrowing_row_mapping) :
                  borrowing_row_mapping[i] - DATE_ROW = offset}
    IN  IF at = {} THEN Str(<<"Item">>) ELSE Str(RefLabels[CHOOSE i \in at : TRUE])

\* a sheet that carries the label of every measure, its date row at date_at
RefSheet(nrows, date_at) ==
    [i \in 1..nrows |->
        [j \in 1..(MaxDateCols + 1) |->
            LET r == i - 1
                c == j - 1
            IN  IF c = 0 THEN (IF r <= date_at THEN NaN ELSE RefLabel(r - date_at))
                ELSE IF r < date_at THEN NaN
                ELSE IF r = date_at THEN DateTime(c)
                ELSE ValueCell(r, c, 0)]]

\* sheets with every label, with some labels, with none, and short ones
BuilderSheets ==
    { RefSheet(MaxSheetRows, DATE_ROW),
      RefSheet(MaxSheetRows - 8, DATE_ROW - 8),
      Sheet(MaxSheetRows, MaxDateCols, [c \in 1..MaxDateCols |-> 1], 0, 0, FALSE),
      Sheet(MaxSheetRows, MaxDateCols, [c \in 1..MaxDateCols |-> 0], 0, MaxShift, FALSE),
      Sheet(40, MaxDateCols, [c \in 1..MaxDateCols |-> 1], 0, 0, TRUE),
      Sheet(DATE_ROW, MaxDateCols, [c \in 1..MaxDateCols |-> 0], 0, 0, FALSE),
      <<>> }

InitBuild ==
    /\ ResolverIdle
    /\ BatchIdle
    /\ OrchestratorIdle
    /\ DownloaderIdle
    /\ borrowing_df \in BuilderSheets
    /\ redemptions_df \in BuilderSheets
    /\ gfb_config = <<>>
    /\ dates = <<>>
    /\ borrowing_data = <<>>
    /\ redemption_data = <<>>
    /\ output_data = <<>>
    /\ formatted_data = <<>>
    /\ epc = "idle"
    /\ borrowing_date_row = None
    /\ redemption_date_row = None
    /\ measure_pos = 0
    /\ borrowing_mappings = <<>>
    /\ redemption_mappings = <<>>
    /\ config = <<>>
    /\ summary = <<>>
    /\ clock = 0
    /\ history = <<>>
    /\ bpc = "start"

NextBuild ==
    \/ BeginBuild
    \/ MapBorrowing
    \/ BeginRedemption
    \/ MapRedemption
    \/ MakeConfig
    \/ Summarize
    \/ SaveConfig
    \/ RunAgain

SpecBuild == InitBuild /\ [][NextBuild]_vars

\* ------------------------------------------------------------------------
\* __main__ of map.py: the batch loop
\* ------------------------------------------------------------------------
\* extract_gfb_data(file_path) raises: the borrowing sheet has no row 14
\* (line 199) or the output file cannot be written (line 317); the handler
\* at lines 338-340 raises again
Raises(file) == file.rows <= DATE_ROW \/ ~file.writable

\* the name extract_gfb_data returns (lines 310-312, 336)
OutputName(file) == <<"GFB_DATA_HARDCODED_", file.name, "_", "20240101", ".xlsx">>

BatchFrame == UNCHANGED <<rvars, evars, bvars, ovars, dvars>>

\* lines 350-353: no file found, exit(1) leaves the script
NoFiles ==
    /\ mpc = "start"
    /\ excel_files = <<>>
    /\ exit_code' = 1
    /\ mpc' = "exited"
    /\ UNCHANGED <<excel_files, file_idx, processed_files, attempted, report>>
    /\ BatchFrame

\* lines 355-358: the loop over the files begins
BeginBatch ==
    /\ mpc = "start"
    /\ excel_files # <<>>
    /\ processed_files' = <<>>
    /\ file_idx' = 1
    /\ mpc' = "loop"
    /\ UNCHANGED <<excel_files, attempted, exit_code, report>>
    /\ BatchFrame

\* lines 359-363: the extraction returns, its output name is recorded
FileExtracted ==
    /\ mpc = "loop"
    /\ file_idx <= Len(excel_files)
    /\ ~Raises(excel_files[file_idx])
    /\ attempted' = Append(attempted, excel_files[file_idx])
    /\ processed_files' = Append(processed_files, OutputName(excel_files[file_idx]))
    /\ file_idx' = file_idx + 1
    /\ UNCHANGED <<excel_files, exit_code, report, mpc>>
    /\ BatchFrame

\* variant: the error of a file ends the loop
FileRaised_Abort ==
    /\ mpc = "loop"
    /\ file_idx <= Len(excel_files)
    /\ Raises(excel_files[file_idx])
    /\ attempted' = Append(attempted, excel_files[file_idx])
    /\ file_idx' = Len(excel_files) + 1
    /\ UNCHANGED <<excel_files, processed_files, exit_code, report, mpc>>
    /\ BatchFrame

\* lines 365-367: the extraction raises, the error is printed, continue
FileRaised ==
    /\ mpc = "loop"
    /\ file_idx <= Len(excel_files)
    /\ Raises(excel_files[file_idx])
    /\ attempted' = Append(attempted, excel_files[file_idx])
    /\ file_idx' = file_idx + 1
    /\ UNCHANGED <<excel_files, processed_files, exit_code, report, mpc>>
    /\ BatchFrame

\* lines 369-376: the final report
Report ==
    /\ mpc = "loop"
    /\ file_idx > Len(excel_files)
    /\ report' = [processed |-> Len(processed_files), total |-> Len(excel_files)]
    /\ mpc' = "reported"
    /\ UNCHANGED <<excel_files, file_idx, processed_files, attempted, exit_code>>
    /\ BatchFrame

\* ---- inputs of the batch loop ----
\* the i-th file found: a full sheet, a sheet without row 14, or a full
\* sheet whose output cannot be written
File(i, kind) ==
    [name |-> i,
     rows |-> IF kind = "short" THEN DATE_ROW ELSE MaxSheetRows,
     writable |-> kind # "locked"]

InitBatch ==
    /\ ResolverIdle
    /\ ExtractorIdle
    /\ BuilderIdle
    /\ OrchestratorIdle
    /\ DownloaderIdle
    /\ \E n \in 0..MaxFiles :
          \E kinds \in [1..n -> {"ok", "short", "locked"}] :
              excel_files = [i \in 1..n |-> File(i, kinds[i])]
    /\ file_idx = 0
    /\ processed_files = <<>>
    /\ attempted = <<>>
    /\ exit_code = None
    /\ report = <<>>
    /\ mpc = "start"

NextBatch ==
    \/ NoFiles
    \/ BeginBatch
    \/ FileExtracted
    \/ FileRaised
    \/ Report

SpecBatch == InitBatch /\ [][NextBatch]_vars

\* ------------------------------------------------------------------------
\* main of orchestrator.py: the pipeline of scripts
\* ------------------------------------------------------------------------
\* the value of --url: None when the option is absent, else the string given
UrlValues == {NoneCell, Str(<<>>), Str(<<"https", ":", "/", "/", "site">>)}

\* truth value of an optional string: None and the empty string are false
Truthy(v) == v.k = "str" /\ v.s # <<>>

\* argparse: six store_true flags and --url
Arguments ==
    [download_only : BOOLEAN, hardcoded_only : BOOLEAN, universal_only : BOOLEAN,
     no_download : BOOLEAN, no_comparison : BOOLEAN, list_outputs : BOOLEAN,
     url : UrlValues]

\* what the environment answers: the two checks, and the return value of
\* each run_* function when it is called
Outcomes ==
    [dependencies : BOOLEAN, files : BOOLEAN, download : BOOLEAN,
     hardcoded : BOOLEAN, universal : BOOLEAN]

OrchestratorFrame == UNCHANGED <<rvars, evars, bvars, mvars, dvars>>

\* variant: --url is refused only together with another single-step mode
UrlWithoutDownloadOnly_OnlyModes(a) ==
    Truthy(a.url) /\ ~a.download_only /\ (a.hardcoded_only \/ a.universal_only)

\* line 347: args.url and not args.download_only
UrlWithoutDownloadOnly(a) == Truthy(a.url) /\ ~a.download_only

\* run_custom_download(args.url, args.keywords) or run_download()
DownloadStep(a) == IF Truthy(a.url) THEN "custom_download" ELSE "download"

\* lines 329-331: --list-outputs lists the files and returns
ListOnly ==
    /\ opc = "start"
    /\ args.list_outputs
    /\ started' = Append(started, "list_outputs")
    /\ opc' = "done"
    /\ UNCHANGED <<args, outcome, success, universal_success, status>>
    /\ OrchestratorFrame

\* lines 334-338: a failed check leaves with sys.exit(1)
CheckFailed ==
    /\ opc = "start"
    /\ ~args.list_outputs
    /\ ~outcome.dependencies \/ ~outcome.files
    /\ status' = 1
    /\ opc' = "exited"
    /\ UNCHANGED <<args, outcome, success, universal_success, started>>
    /\ OrchestratorFrame

\* lines 340-344: both checks passed, success = True
Checked ==
    /\ opc = "start"
    /\ ~args.list_outputs
    /\ outcome.dependencies /\ outcome.files
    /\ success' = TRUE
    /\ opc' = "checked"
    /\ UNCHANGED <<args, outcome, universal_success, started, status>>
    /\ OrchestratorFrame

\* lines 347-349: --url without --download-only leaves with sys.exit(1)
UrlRefused ==
    /\ opc = "checked"
    /\ UrlWithoutDownloadOnly(args)
    /\ status' = 1
    /\ opc' = "exited"
    /\ UNCHANGED <<args, outcome, success, universal_success, started>>
    /\ OrchestratorFrame

\* lines 352-357: --download-only
DownloadOnly ==
    /\ opc = "checked"
    /\ ~UrlWithoutDownloadOnly(args)
    /\ args.download_only
    /\ started' = Append(started, DownloadStep(args))
    /\ success' = outcome.download
    /\ opc' = "compare"
    /\ UNCHANGED <<args, outcome, universal_success, status>>
    /\ OrchestratorFrame

\* lines 358-359: --universal-only
UniversalOnly ==
    /\ opc = "checked"
    /\ ~UrlWithoutDownloadOnly(args)
    /\ ~args.download_only
    /\ args.universal_only
    /\ started' = Append(started, "universal")
    /\ success' = outcome.universal
    /\ opc' = "compare"
    /\ UNCHANGED <<args, outcome, universal_success, status>>
    /\ OrchestratorFrame

\* lines 360-361: --hardcoded-only
HardcodedOnly ==
    /\ opc = "checked"
    /\ ~UrlWithoutDownloadOnly(args)
    /\ ~args.download_only
    /\ ~args.universal_only
    /\ args.hardcoded_only
    /\ started' = Append(started, "hardcoded")
    /\ success' = outcome.hardcoded
    /\ opc' = "compare"
    /\ UNCHANGED <<args, outcome, universal_success, status>>
    /\ OrchestratorFrame

FullPipeline ==
    /\ opc = "checked"
    /\ ~UrlWithoutDownloadOnly(args)
    /\ ~args.download_only
    /\ ~args.universal_only
    /\ ~args.hardcoded_only

\* lines 368-373: step 1, the download
PipelineDownload ==
    /\ FullPipeline
    /\ ~args.no_download
    /\ started' = Append(started, DownloadStep(args))
    /\ success' = outcome.download
    /\ opc' = "step2"
    /\ UNCHANGED <<args, outcome, universal_success, status>>
    /\ OrchestratorFrame

\* lines 374-377: step 1 skipped with --no-download
PipelineSkipDownload ==
    /\ FullPipeline
    /\ args.no_download
    /\ success' = TRUE
    /\ opc' = "step2"
    /\ UNCHANGED <<args, outcome, universal_success, started, status>>
    /\ OrchestratorFrame

\* lines 380-382: step 2, the hardcoded extraction, if success
PipelineHardcoded ==
    /\ opc = "step2"
    /\ IF success
       THEN /\ started' = Append(started, "hardcoded")
            /\ success' = outcome.hardcoded
       ELSE UNCHANGED <<started, success>>
    /\ opc' = "step3"
    /\ UNCHANGED <<args, outcome, universal_success, status>>
    /\ OrchestratorFrame

\* variant: step 3 runs whatever step 2 returned
PipelineUniversal_Ungated ==
    /\ opc = "step3"
    /\ started' = Append(started, "universal")
    /\ universal_success' = outcome.universal
    /\ opc' = "compare"
    /\ UNCHANGED <<args, outcome, success, status>>
    /\ OrchestratorFrame

\* lines 385-387: step 3, the universal extraction, if success; its result
\* goes to universal_success
PipelineUniversal ==
    /\ opc = "step3"
    /\ IF success
       THEN /\ started' = Append(started, "universal")
            /\ universal_success' = outcome.universal
       ELSE UNCHANGED <<started, universal_success>>
    /\ opc' = "compare"
    /\ UNCHANGED <<args, outcome, success, status>>
    /\ OrchestratorFrame

\* lines 390-393: the comparison scripts, unless disabled or after a failure;
\* then list_output_files (line 396)
Compare ==
    /\ opc = "compare"
    /\ started' = IF ~args.no_comparison /\ success
                  THEN started \o <<"comparison", "list_outputs">>
                  ELSE Append(started, "list_outputs")
    /\ opc' = "final"
    /\ UNCHANGED <<args, outcome, success, universal_success, status>>
    /\ OrchestratorFrame

\* lines 399-405: the final status
FinalStatus ==
    /\ opc = "final"
    /\ status' = IF success THEN None ELSE 1
    /\ opc' = IF success THEN "done" ELSE "exited"
    /\ UNCHANGED <<args, outcome, success, universal_success, started>>
    /\ OrchestratorFrame

InitOrchestrator ==
    /\ ResolverIdle
    /\ ExtractorIdle
    /\ BuilderIdle
    /\ BatchIdle
    /\ DownloaderIdle
    /\ args \in Arguments
    /\ outcome \in Outcomes
    /\ success = TRUE
    /\ universal_success = TRUE
    /\ started = <<>>
    /\ status = None
    /\ opc = "start"

NextOrchestrator ==
    \/ ListOnly
    \/ CheckFailed
    \/ Checked
    \/ UrlRefused
    \/ DownloadOnly
    \/ UniversalOnly
    \/ HardcodedOnly
    \/ PipelineDownload
    \/ PipelineSkipDownload
    \/ PipelineHardcoded
    \/ PipelineUniversal
    \/ Compare
    \/ FinalStatus

SpecOrchestrator == InitOrchestrator /\ [][NextOrchestrator]_vars

\* ------------------------------------------------------------------------
\* download_excel_from_website (main.py): the downloader
\* ------------------------------------------------------------------------
\* most candidates the strategies collect on a page
MaxButtons == 3

\* relevance scores: 1 without a keyword match, 3 with one and a download word
Scores == {1, 3}

\* the candidates of a page: two links to the same file, two script buttons
\* without href; yields tells whether attempt_download gets a file from it
Candidates ==
    [element : {1, 2}, url : {<<"a", ".", "xlsx">>}, relevance_score : Scores,
     yields : BOOLEAN]
    \cup [element : {3, 4}, url : {<<>>}, relevance_score : Scores, yields : BOOLEAN]

\* button['url'] or str(button['element'])
UrlKey(button) ==
    IF button.url # <<>> THEN button.url ELSE <<"element", button.element>>

\* lines 196-204: the first candidate of every url key, in the order found
RECURSIVE Unique(_, _)
Unique(list, seen_urls) ==
    IF list = <<>> THEN <<>>
    ELSE IF UrlKey(Head(list)) \in seen_urls THEN Unique(Tail(list), seen_urls)
         ELSE <<Head(list)>> \o Unique(Tail(list), seen_urls \cup {UrlKey(Head(list))})

\* line 207: list.sort(key=relevance_score, reverse=True), a stable sort
RECURSIVE SortByRelevance(_)
SortByRelevance(list) ==
    IF list = <<>> THEN <<>>
    ELSE LET best == CHOOSE i \in 1..Len(list) :
                        /\ \A k \in 1..Len(list) :
                              list[k].relevance_score <= list[i].relevance_score
                        /\ \A k \in 1..(i - 1) :
                              list[k].relevance_score < list[i].relevance_score
         IN  <<list[best]>> \o
             SortByRelevance(SubSeq(list, 1, best - 1) \o SubSeq(list, best + 1, Len(list)))

\* variant: the candidates are left in the order found
find_excel_download_buttons_Unsorted(found) == Unique(found, {})

\* lines 101-213
find_excel_download_buttons(found) == SortByRelevance(Unique(found, {}))

\* the path attempt_download returns for a candidate that yields a file
FilePath(button) == <<"downloads", "/", "file", button.element, ".", "xlsx">>

DownloaderFrame == UNCHANGED <<rvars, evars, bvars, mvars, ovars>>

\* lines 57-59, 91-93: the page cannot be opened, the exception is caught
\* and None is returned
PageError ==
    /\ dpc = "start"
    /\ download_result' = None
    /\ dpc' = "failed"
    /\ UNCHANGED <<buttons, download_buttons, button_idx, tried>>
    /\ DownloaderFrame

\* lines 74-78: no candidate, return None
NoButtons ==
    /\ dpc = "start"
    /\ find_excel_download_buttons(buttons) = <<>>
    /\ download_buttons' = <<>>
    /\ download_result' = None
    /\ dpc' = "returned"
    /\ UNCHANGED <<buttons, button_idx, tried>>
    /\ DownloaderFrame

\* lines 74-81: candidates found, the loop starts
ButtonsFound ==
    /\ dpc = "start"
    /\ find_excel_download_buttons(buttons) # <<>>
    /\ download_buttons' = find_excel_download_buttons(buttons)
    /\ button_idx' = 1
    /\ dpc' = "loop"
    /\ UNCHANGED <<buttons, tried, download_result>>
    /\ DownloaderFrame

\* lines 81-86: the attempt yields a file, its path is returned
AttemptYields ==
    /\ dpc = "loop"
    /\ button_idx <= Len(download_buttons)
    /\ download_buttons[button_idx].yields
    /\ tried' = Append(tried, download_buttons[button_idx])
    /\ download_result' = FilePath(download_buttons[button_idx])
    /\ dpc' = "returned"
    /\ UNCHANGED <<buttons, download_buttons, button_idx>>
    /\ DownloaderFrame

\* lines 81-86: the attempt yields nothing, next candidate
AttemptFails ==
    /\ dpc = "loop"
    /\ button_idx <= Len(download_buttons)
    /\ ~download_buttons[button_idx].yields
    /\ tried' = Append(tried, download_buttons[button_idx])
    /\ button_idx' = button_idx + 1
    /\ UNCHANGED <<buttons, download_buttons, download_result, dpc>>
    /\ DownloaderFrame

\* lines 88-89: every attempt failed, return None
AllFailed ==
    /\ dpc = "loop"
    /\ button_idx > Len(download_buttons)
    /\ download_result' = None
    /\ dpc' = "returned"
    /\ UNCHANGED <<buttons, download_buttons, button_idx, tried>>
    /\ DownloaderFrame

InitDownload ==
    /\ ResolverIdle
    /\ ExtractorIdle
    /\ BuilderIdle
    /\ BatchIdle
    /\ OrchestratorIdle
    /\ \E n \in 0..MaxButtons : buttons \in [1..n -> Candidates]
    /\ download_buttons = <<>>
    /\ button_idx = 0
    /\ tried = <<>>
    /\ download_result = None
    /\ dpc = "start"

NextDownload ==
    \/ PageError
    \/ NoButtons
    \/ ButtonsFound
    \/ AttemptYields
    \/ AttemptFails
    \/ AllFailed

SpecDownload == InitDownload /\ [][NextDownload]_vars

\* ========================================================================
\* Properties
\* ========================================================================
Label(r) == clean_text(Iloc(df, r, 0))

\* row r carries a non-empty label that some pattern of the list matches
RowMatches(r) ==
    /\ Label(r) # <<>>
    /\ \E p \in {search_patterns[i] : i \in DOMAIN search_patterns} : re_search(p, Label(r))

HasAncestor(p) == Contains(LowerText(Label(p)), LowerText(parent_section))

\* the ancestor is on one of the 15 rows right above r, not above start_row
AncestorWithin15Rows(r) ==
    \E p \in 0..(Len(df) - 1) :
        p < r /\ p >= r - 15 /\ p >= start_row /\ HasAncestor(p)

\* the ancestor is one of the 15 nearest non-empty labels above r
AncestorWithin15Labels(r) ==
    \E p \in 0..(Len(df) - 1) :
        /\ p < r /\ p >= start_row /\ HasAncestor(p)
        /\ Cardinality({q \in (p + 1)..(r - 1) : Label(q) # <<>>}) < 15

Lowest(S) == IF S = {} THEN None ELSE CHOOSE x \in S : \A y \in S : x <= y

ScannedRows == start_row..(Len(df) - 1)

C2_FirstMatchWins ==
    (rpc = "done" /\ parent_section = <<>>) =>
        /\ result = Lowest({r \in ScannedRows : RowMatches(r)})
        /\ (result = None) <=> ({r \in ScannedRows : RowMatches(r)} = {})
        /\ \A i, j \in 1..Len(tested) : i < j => tested[i] < tested[j]

\* C2 witness: the returned row matches only a later pattern of the list
\* while a higher row matches the first pattern.
C2_Witness ==
    /\ rpc = "done" /\ parent_section = <<>> /\ result # None
    /\ ~re_search(search_patterns[1], Label(result))
    /\ \E r \in ScannedRows : r > result /\ re_search(search_patterns[1], Label(r))

NumMeasures == Len(borrowing_row_mapping) + Len(redemption_row_mapping)

\* sheet and source row of output measure m (1..108)
SheetOf(m) == IF m <= Len(borrowing_row_mapping) THEN borrowing_df ELSE redemptions_df

SourceRow(m) ==
    IF m <= Len(borrowing_row_mapping) THEN borrowing_row_mapping[m]
    ELSE redemption_row_mapping[m - Len(borrowing_row_mapping)]

Available(m) == SourceRow(m) < Len(SheetOf(m))

AllData == borrowing_data \o redemption_data

\* the output cell shows the value of the source cell, formatted or not
ShowsCell(out, src) == out \in {ToOutputValue(src), format_number(ToOutputValue(src))}

\* the row the Row Resolver finds now for a tracked measure
LiveRow(i) ==
    find_text_in_sheet(borrowing_df, MeasurePatterns(i), DATE_ROW + 1, MeasureParent(i))

ValuesOfRow(d, r) == SubSeq(d[r + 1], 2, Len(dates) + 1)

Placeholders == [j \in 1..Len(dates) |-> NaN]

\* C4: the values of a measure are read from the row the Row Resolver finds
\* for it on the current sheet, so from the shifted row after a drift.
C4_RowDriftResilience ==
    epc = "done" =>
        \A i \in TrackedMeasures :
            LiveRow(i) # None => borrowing_data[i] = ValuesOfRow(borrowing_df, LiveRow(i))

\* C5: a measure whose patterns match nowhere is read from the row stored in
\* the persisted mapping when that row is in bounds, and is a row of
\* placeholders, one per date column, when it is out of bounds.
C5_FallbackToStoredRow ==
    epc = "done" =>
        \A i \in TrackedMeasures :
            (LiveRow(i) = None /\ gfb_config[i] # None) =>
                borrowing_data[i] =
                    IF gfb_config[i] < Len(borrowing_df)
                    THEN ValuesOfRow(borrowing_df, gfb_config[i])
                    ELSE Placeholders

\* C6: a measure whose source row is beyond the sheet gets one placeholder
\* per date column and None in every data row, and every measure whose row
\* exists keeps its own output column.
C6_AbsenceKeepsColumns ==
    epc = "done" =>
        \A m \in 1..NumMeasures :
            /\ m <= Len(AllData)
            /\ \A i \in 1..Len(dates) : m + 1 <= Len(formatted_data[i + 2])
            /\ ~Available(m) =>
                  /\ AllData[m] = Placeholders
                  /\ \A i \in 1..Len(dates) : formatted_data[i + 2][m + 1] = NoneCell
            /\ Available(m) =>
                  \A i \in 1..Len(dates) :
                      LET row == SheetOf(m)[SourceRow(m) + 1]
                      IN  IF i + 1 <= Len(row)
                          THEN ShowsCell(formatted_data[i + 2][m + 1], row[i + 1])
                          ELSE formatted_data[i + 2][m + 1] = NoneCell

\* C6 witness: there are data rows, a measure's row is missing and a later
\* measure's row exists.
C6_Witness ==
    /\ epc = "done" /\ Len(dates) > 0
    /\ \E m \in 1..NumMeasures :
          /\ ~Available(m)
          /\ \E m2 \in (m + 1)..NumMeasures :
                /\ Available(m2)
                /\ formatted_data[3][m2 + 1] # NoneCell

\* C7: every data row takes its period label from some column c of the date
\* row and every measure value from the same column c of the measure's row.
C7_AlignedToDateAxis ==
    epc = "done" =>
        \A i \in 1..Len(dates) :
            \E c \in 1..(Len(borrowing_df[DATE_ROW + 1]) - 1) :
                /\ ~IsNa(borrowing_df[DATE_ROW + 1][c + 1])
                /\ formatted_data[i + 2][1] = Str(ConvertDate(borrowing_df[DATE_ROW + 1][c + 1]))
                /\ \A m \in 1..NumMeasures :
                      (Available(m) /\ c + 1 <= Len(SheetOf(m)[SourceRow(m) + 1])) =>
                          ShowsCell(formatted_data[i + 2][m + 1], SheetOf(m)[SourceRow(m) + 1][c + 1])

\* C8: every row of the output table has len(catalog) + 1 = 109 cells and
\* the first header row, without its first cell, is the 54 borrowing codes
\* followed by the 54 redemption codes.
C8_OutputShape ==
    epc = "done" =>
        /\ \A r \in 1..Len(formatted_data) :
              Len(formatted_data[r]) = 109 /\ Len(formatted_data[r]) = NumMeasures + 1
        /\ \A i \in 1..54 :
              /\ formatted_data[1][i + 1] = Str(BORROWING_CODES[i])
              /\ LET code == formatted_data[1][i + 55]
                 IN  /\ code.k = "str"
                     /\ Len(code.s) = Len(BORROWING_CODES[i])
                     /\ \A p \in 1..Len(code.s) :
                           code.s[p] = IF BORROWING_CODES[i][p] = "BORR" THEN "REDEM"
                                       ELSE BORROWING_CODES[i][p]

\* C8 witness: an output table with data rows, built from a sheet that lacks
\* the rows of some measures.
C8_Witness ==
    /\ epc = "done"
    /\ Len(formatted_data) > 2
    /\ \E m \in 1..NumMeasures : ~Available(m)

\* C9: in every data row and every measure column a whole number is an
\* integer and a number with a fractional part is a float.
C9_IntegerNormalization ==
    epc = "done" =>
        \A r \in 3..Len(formatted_data) :
            \A j \in 2..Len(formatted_data[r]) :
                LET v == formatted_data[r][j]
                IN  v.k \in {"int", "float"} => (v.k = "int" <=> v.f = 0)

\* the content of the cell cannot be parsed as a number
Unparseable(src) == src.k = "dt" \/ (src.k = "str" /\ ~IsNumericText(src.s))

IsZero(out) == out.k \in {"int", "float"} /\ out.n = 0 /\ out.f = 0

\* the source cells the output shows: measure m, date column i, the cell
\* exists
Shown(m, i) ==
    /\ Available(m)
    /\ i + 1 <= Len(SheetOf(m)[SourceRow(m) + 1])

SourceCell(m, i) == SheetOf(m)[SourceRow(m) + 1][i + 1]

\* C10 as stated: an empty cell and an unparseable cell are both emitted as
\* None.
C10_AbsentMarker ==
    epc = "done" =>
        \A m \in 1..NumMeasures : \A i \in 1..Len(dates) :
            (Shown(m, i) /\ (IsNa(SourceCell(m, i)) \/ Unparseable(SourceCell(m, i)))) =>
                formatted_data[i + 2][m + 1] = NoneCell

\* C10 amended: an empty cell is emitted as None, an unparseable cell is
\* emitted unchanged, and neither is emitted as zero.
C10_AbsentOrUnchanged ==
    epc = "done" =>
        \A m \in 1..NumMeasures : \A i \in 1..Len(dates) :
            Shown(m, i) =>
                LET src == SourceCell(m, i)
                    out == formatted_data[i + 2][m + 1]
                IN  /\ IsNa(src) => out = NoneCell
                    /\ Unparseable(src) => out = src
                    /\ (IsNa(src) \/ Unparseable(src)) => ~IsZero(out)

\* C10 witness: the output shows an empty cell as None and an unparseable
\* cell unchanged.
C10_Witness ==
    /\ epc = "done"
    /\ \E m \in 1..NumMeasures : \E i \in 1..Len(dates) :
          Shown(m, i) /\ IsNa(SourceCell(m, i)) /\ formatted_data[i + 2][m + 1] = NoneCell
    /\ \E m \in 1..NumMeasures : \E i \in 1..Len(dates) :
          /\ Shown(m, i) /\ Unparseable(SourceCell(m, i))
          /\ formatted_data[i + 2][m + 1] = SourceCell(m, i)

\* ---- lookback and start_row ----
\* C16: the lookback of a matching row reads no row below start_row and no
\* row index below 0, and a returned row that needed an ancestor has it on
\* a row from start_row on: an ancestor label above start_row validates
\* nothing.
C16_LookbackNotPastStart ==
    /\ \A i \in 1..Len(tested) :
          \A p \in LookbackRows(tested[i], start_row) : p >= start_row /\ p >= 0
    /\ (rpc = "done" /\ result # None /\ parent_section # <<>>)
          => \E p \in start_row..(result - 1) : HasAncestor(p)

\* a matching row was tested whose only ancestor within 15 rows lies above
\* start_row, and the scan did not return it
C16_Witness ==
    /\ rpc = "done"
    /\ parent_section # <<>>
    /\ start_row > 0
    /\ \E i \in 1..Len(tested) :
          LET r == tested[i]
          IN  /\ RowMatches(r)
              /\ result # r
              /\ \E p \in 0..(start_row - 1) : p >= r - 15 /\ HasAncestor(p)
              /\ \A p \in start_row..(r - 1) : ~HasAncestor(p)

\* ---- Date Axis Locator ----
\* at least 3 cells of row r in columns 1..9 are date-like
Qualifies(r) ==
    Cardinality({c \in 1..9 : c < Len(df[r + 1]) /\ IsDateLike(Iloc(df, r, c))}) >= 3

\* the rows the locator may examine: the first 20 of the sheet
HeaderRows == {r \in 0..19 : r < Len(df)}

\* C14: when the locator reports a located date axis, it is the lowest of the
\* first 20 rows with at least 3 date-like cells in columns 1..9, the rows
\* examined are exactly the rows up to it, and whenever such a row exists it
\* is the one returned.
C14_LowestQualifyingRow ==
    /\ rpc = "located" =>
          /\ result \in HeaderRows
          /\ Qualifies(result)
          /\ \A q \in HeaderRows : q < result => ~Qualifies(q)
          /\ tested = [i \in 1..(result + 1) |-> i - 1]
    /\ (rpc \in {"located", "defaulted"} /\ \E r \in HeaderRows : Qualifies(r))
          => rpc = "located" /\ result = Lowest({r \in HeaderRows : Qualifies(r)})

\* a date axis was located below a row with date-like cells outside the
\* window and above a second qualifying row
C14_Witness ==
    /\ rpc = "located"
    /\ result > 0
    /\ \E q \in HeaderRows : q > result /\ Qualifies(q)
    /\ \E q \in HeaderRows :
          /\ q < result
          /\ Cardinality({c \in 0..(Len(df[q + 1]) - 1) : IsDateLike(Iloc(df, q, c))}) >= 3

\* C15: when none of the first 20 rows qualifies the locator returns the
\* constant 13, whatever the sheet, and it returns 13 by default in no other
\* case.
C15_DefaultDateRow ==
    rpc \in {"located", "defaulted"} =>
        /\ (\A r \in HeaderRows : ~Qualifies(r)) => (rpc = "defaulted" /\ result = 13)
        /\ rpc = "defaulted" => (\A r \in HeaderRows : ~Qualifies(r))
        /\ result = find_date_row(df)

\* the default was returned for a sheet whose only qualifying row is beyond
\* the first 20 rows
C15_Witness ==
    /\ rpc = "defaulted"
    /\ result = 13
    /\ \E r \in 20..(Len(df) - 1) : Qualifies(r)

\* ---- Mapping Builder ----
\* build_config has put the Mapping together
ConfigMade == bpc \in {"summary", "built", "saved"}

Codes(measures) == [i \in 1..Len(measures) |-> measures[i].code]

Rows(measures) == [i \in 1..Len(measures) |-> measures[i].source_row]

Missing(measures) == {i \in 1..Len(measures) : measures[i].source_row = None}

\* C11: each sheet block of the Mapping has exactly one entry per measure of
\* the catalog, and entry i carries the code of measure i of the catalog.
C11_OneEntryPerMeasure ==
    ConfigMade =>
        /\ Len(config.borrowing_sheet.measures) = Len(borrowing_measures)
        /\ Len(config.redemption_sheet.measures) = Len(redemption_measures)
        /\ Codes(config.borrowing_sheet.measures) = Codes(borrowing_measures)
        /\ Codes(config.redemption_sheet.measures) = Codes(redemption_measures)

\* a Mapping was built from a sheet on which some measures are found and
\* others are not
C11_Witness ==
    /\ ConfigMade
    /\ Missing(config.borrowing_sheet.measures) # {}
    /\ Missing(config.borrowing_sheet.measures) # 1..Len(borrowing_measures)
    /\ Missing(config.redemption_sheet.measures) = {}

\* the entry of measure i of a sheet block records what the Row Resolver
\* returns for it, with a null label next to a null row
RecordsResolution(block, d, measures, i) ==
    LET row == find_text_in_sheet(d, measures[i].search_patterns, block.date_row + 1,
                                  measures[i].parent_section)
    IN  /\ block.measures[i].source_row = row
        /\ row = None => block.measures[i].source_label = NoneCell
        /\ row # None => block.measures[i].source_label = Str(clean_text(Iloc(d, row, 0)))

\* C12: a measure the Row Resolver does not find gets an entry with a null
\* row and a null label, the measures after it are resolved as usual (every
\* pass of a loop adds its entry), and the Mapping is produced.
C12_NoAbortOnPartialFailure ==
    /\ ConfigMade =>
          /\ \A i \in 1..Len(borrowing_measures) :
                /\ i <= Len(config.borrowing_sheet.measures)
                /\ RecordsResolution(config.borrowing_sheet, borrowing_df, borrowing_measures, i)
          /\ \A i \in 1..Len(redemption_measures) :
                /\ i <= Len(config.redemption_sheet.measures)
                /\ RecordsResolution(config.redemption_sheet, redemptions_df,
                                     redemption_measures, i)
    /\ bpc = "borrowing" => Len(borrowing_mappings) = measure_pos - 1
    /\ bpc = "redemption" => Len(redemption_mappings) = measure_pos - 1

\* a Mapping was produced although the first measure of the catalog was not
\* found; entries after it carry rows
C12_Witness ==
    /\ ConfigMade
    /\ 1 \in Missing(config.borrowing_sheet.measures)
    /\ config.borrowing_sheet.measures[1].source_label = NoneCell
    /\ \E i \in 2..Len(borrowing_measures) : i \notin Missing(config.borrowing_sheet.measures)
    /\ Missing(config.redemption_sheet.measures) = 1..Len(redemption_measures)

Found(measures) == {i \in 1..Len(measures) : measures[i].source_row # None}

\* the position of a run on its path: the start, one pass per borrowing
\* measure, the end of that loop, one pass per redemption measure, the
\* Mapping, the summary, the saved document
RunLength == Len(borrowing_measures) + Len(redemption_measures) + 6

BuildRank ==
    Len(history) * RunLength +
    CASE bpc = "start" -> 0
      [] bpc = "borrowing" -> measure_pos
      [] bpc = "redemption" -> Len(borrowing_measures) + 1 + measure_pos
      [] bpc = "summary" -> RunLength - 3
      [] bpc = "built" -> RunLength - 2
      [] OTHER -> -1

WithoutCreated(document) == [document EXCEPT !.created = JNull]

\* json.load: the entry, the sheet block and the Mapping a document holds
LoadEntry(e) ==
    [code |-> e.code.v,
     description |-> e.description.v,
     search_patterns |-> [i \in 1..Len(e.search_patterns) |-> e.search_patterns[i].v],
     source_row |-> IF e.source_row.j = "null" THEN None ELSE e.source_row.v,
     source_label |-> IF e.source_label.j = "null" THEN NoneCell ELSE Str(e.source_label.v)]

LoadSheet(b) ==
    [name |-> b.name.v,
     date_row |-> b.date_row.v,
     date_column_start |-> b.date_column_start.v,
     measures |-> [i \in 1..Len(b.measures) |-> LoadEntry(b.measures[i])]]

Load(document) ==
    [version |-> document.version.v,
     created |-> document.created.v,
     source_file |-> document.source_file.v,
     borrowing_sheet |-> LoadSheet(document.borrowing_sheet),
     redemption_sheet |-> LoadSheet(document.redemption_sheet)]

Extractable == SelectSeq(excel_files, LAMBDA f : ~Raises(f))

\* C18: when the batch has been gone through, every file was handed to the
\* extraction in turn, also the files behind one that raised; the files
\* recorded as processed are the files that did not raise, and the final
\* report counts exactly those, out of all files.
C18_PerFileErrorsDoNotAbort ==
    /\ mpc = "loop" => attempted = SubSeq(excel_files, 1, file_idx - 1)
    /\ mpc = "reported" =>
          /\ attempted = excel_files
          /\ processed_files = [i \in 1..Len(Extractable) |-> OutputName(Extractable[i])]
          /\ report.processed = Len(Extractable)
          /\ report.total = Len(excel_files)
    /\ (excel_files # <<>> /\ mpc # "start") => exit_code = None

\* the report was made for a batch in which a file raised and a later file
\* was extracted
C18_Witness ==
    /\ mpc = "reported"
    /\ \E i, j \in 1..Len(excel_files) :
          i < j /\ Raises(excel_files[i]) /\ ~Raises(excel_files[j])
    /\ \E i \in 1..Len(excel_files) : ~excel_files[i].writable
    /\ \E i \in 1..Len(excel_files) : excel_files[i].rows <= DATE_ROW
    /\ report.processed > 0
    /\ report.processed < report.total

\* ---- end-to-end scenario ----
\* the data rows of the output table, cut down to the date and one measure
ColumnOf(m) == [i \in 1..(Len(formatted_data) - 2) |->
                   <<formatted_data[i + 2][1], formatted_data[i + 2][m + 1]>>]

\* C17: for the grid of the scenario (periods 2024-01, 2024-02, 2024-03;
\* "Federal budget" on row 5 with the values 100, 200.5, empty) the run ends
\* with an output table whose data rows read, for that measure,
\* ["2024-01", 100], ["2024-02", 200.5], ["2024-03", None].
C17_EndToEndScenario ==
    (borrowing_df \in ScenarioGrids /\ epc \in {"done", "error"}) =>
        /\ epc = "done"
        /\ ColumnOf(FEDBUDGET) =
              << <<Str(<<"2024", "-", "01">>), IntCell(100)>>,
                 <<Str(<<"2024", "-", "02">>), FloatCell(200, 5)>>,
                 <<Str(<<"2024", "-", "03">>), NoneCell>> >>

\* ---- persisted record fields ----
\* the measures of the catalog that define a required ancestor
WithParent(measures) == {i \in 1..Len(measures) : measures[i].parent_section # <<>>}

SheetFields == {"name", "date_row", "date_column_start", "measures"}

EntryFields == {"code", "description", "search_patterns", "source_row", "source_label"}

\* the record of measure i of a persisted sheet block carries the required
\* ancestor of the measure
CarriesParent(block, measures, i) ==
    /\ "parent_section" \in DOMAIN block.measures[i]
    /\ block.measures[i].parent_section = JStr(measures[i].parent_section)

\* C21: each sheet block of the persisted Mapping carries sheet name,
\* date-axis row and date column start; each of its measure records carries
\* code, description, patterns, resolved row, resolved label and, for every
\* measure that defines a required ancestor, that required ancestor.
C21_PersistedRecordFields ==
    bpc = "saved" =>
        /\ SheetFields \subseteq DOMAIN gfb_config.borrowing_sheet
        /\ SheetFields \subseteq DOMAIN gfb_config.redemption_sheet
        /\ \A i \in 1..Len(borrowing_measures) :
              /\ EntryFields \subseteq DOMAIN gfb_config.borrowing_sheet.measures[i]
              /\ EntryFields \subseteq DOMAIN gfb_config.redemption_sheet.measures[i]
        /\ \A i \in WithParent(borrowing_measures) :
              CarriesParent(gfb_config.borrowing_sheet, borrowing_measures, i)
        /\ \A i \in WithParent(redemption_measures) :
              CarriesParent(gfb_config.redemption_sheet, redemption_measures, i)

\* ---- orchestrator ----
ScriptSteps == {"download", "custom_download", "hardcoded", "universal", "comparison"}

StartedSteps == {started[i] : i \in 1..Len(started)}

Over == opc \in {"done", "exited"}

DefaultPipeline ==
    /\ ~args.list_outputs
    /\ ~args.download_only
    /\ ~args.universal_only
    /\ ~args.hardcoded_only

DownloadStarted == StartedSteps \cap {"download", "custom_download"} # {}

\* C27: in the default full pipeline the hardcoded extraction is started
\* only if the download succeeded or was skipped with --no-download, the
\* universal extraction only if the hardcoded extraction was started and
\* succeeded, the comparison only if the success flag holds and
\* --no-comparison was not given; after a failed download or a failed
\* hardcoded extraction no later script is started, and the scripts start
\* in the order download, hardcoded, universal, comparison.
C27_StepGating ==
    DefaultPipeline =>
        /\ "hardcoded" \in StartedSteps =>
              IF args.no_download THEN ~DownloadStarted
              ELSE DownloadStarted /\ outcome.download
        /\ "universal" \in StartedSteps =>
              "hardcoded" \in StartedSteps /\ outcome.hardcoded
        /\ "comparison" \in StartedSteps => success /\ ~args.no_comparison
        /\ (DownloadStarted /\ ~outcome.download) =>
              StartedSteps \cap {"hardcoded", "universal", "comparison"} = {}
        /\ ("hardcoded" \in StartedSteps /\ ~outcome.hardcoded) =>
              StartedSteps \cap {"universal", "comparison"} = {}
        /\ \A i, j \in 1..Len(started) :
              (i < j /\ started[j] = "hardcoded") =>
                  started[i] \in {"download", "custom_download"}
        /\ \A i, j \in 1..Len(started) :
              (i < j /\ started[j] = "universal") =>
                  started[i] \in {"download", "custom_download", "hardcoded"}

\* a default run whose download succeeded and whose hardcoded extraction
\* failed has ended: neither the universal extraction nor the comparison ran
C27_Witness ==
    /\ DefaultPipeline
    /\ opc = "exited"
    /\ started = <<"download", "hardcoded", "list_outputs">>
    /\ ~outcome.hardcoded
    /\ outcome.universal
    /\ ~args.no_comparison

\* the run went through the final status (lines 399-405)
Completed == Over /\ ~args.list_outputs /\ "list_outputs" \in StartedSteps

\* a download or extraction step that was executed returned failure
ExecutedFailure ==
    \/ DownloadStarted /\ ~outcome.download
    \/ "hardcoded" \in StartedSteps /\ ~outcome.hardcoded
    \/ "universal" \in StartedSteps /\ ~outcome.universal

\* C28: a run that reaches the final status exits with status 1 if and only
\* if some download or extraction step it executed returned failure; in
\* every mode a failed universal extraction ends the run with status 1.
C28_FinalStatus ==
    Completed =>
        /\ status = 1 <=> ExecutedFailure
        /\ ("universal" \in StartedSteps /\ ~outcome.universal) => status = 1

\* ---- the date axis of the extractor and of the Mapping ----
\* the period labels of row r: iloc[r, 1:].dropna(), converted
LabelsOfRow(d, r) ==
    LET cells == DropNa(SubSeq(d[r + 1], 2, Len(d[r + 1])))
    IN  [i \in 1..Len(cells) |-> ConvertDate(cells[i])]

\* C23: once the extractor has read the period labels of a grid, the row it
\* read them from is the row find_date_row locates on that grid (the
\* date_row of the borrowing sheet in the Mapping), and the labels are the
\* labels of that row.
C23_DateAxisAgrees ==
    epc \in {"dates", "borrowing", "redemption", "assembled", "done"} =>
        /\ DATE_ROW = find_date_row(borrowing_df)
        /\ dates = LabelsOfRow(borrowing_df, find_date_row(borrowing_df))

\* ---- resolved rows ----
\* no two entries of the block carry the same resolved row
Injective(measures) ==
    \A i, j \in 1..Len(measures) :
        (i # j /\ measures[i].source_row # None) =>
            measures[i].source_row # measures[j].source_row

\* C24: in each sheet block of a Mapping built with the catalog no two
\* distinct measures have the same non-null resolved row.
C24_ResolvedRowsInjective ==
    ConfigMade =>
        /\ Injective(config.borrowing_sheet.measures)
        /\ Injective(config.redemption_sheet.measures)

\* ---- range of the date-axis row ----
\* C25: the index find_date_row returns is a row of the grid,
\* 0 <= r < row count, so the start bound r + 1 handed to the Row Resolver
\* does not exceed the row count.
C25_DateRowInRange ==
    rpc \in {"located", "defaulted"} =>
        /\ 0 <= result
        /\ result < Len(df)
        /\ result + 1 <= Len(df)

\* ---- the catalog of build_config and the header lists of map.py ----
Descriptions(measures) == [i \in 1..Len(measures) |-> measures[i].description]

\* C26: the codes and descriptions of the two sheet blocks of a Mapping,
\* which are those of create_measure_definitions, are position by position
\* the header lists hardcoded in map.py (54 borrowing and 54 redemption
\* entries), and the hardcoded row mapping of map.py has one row index per
\* measure of the catalog.
C26_CatalogCopiesAgree ==
    ConfigMade =>
        /\ Codes(config.borrowing_sheet.measures) = BORROWING_CODES
        /\ Descriptions(config.borrowing_sheet.measures) = BORROWING_DESCRIPTIONS
        /\ Codes(config.redemption_sheet.measures) = REDEMPTION_CODES
        /\ Descriptions(config.redemption_sheet.measures) = REDEMPTION_DESCRIPTIONS
        /\ Len(BORROWING_CODES) = 54
        /\ Len(REDEMPTION_CODES) = 54
        /\ Len(borrowing_row_mapping) = Len(config.borrowing_sheet.measures)
        /\ Len(borrowing_row_mapping) = Len(config.redemption_sheet.measures)

\* a Mapping was built and saved for the reference layout
C26_Witness ==
    /\ bpc = "saved"
    /\ borrowing_df = RefSheet(MaxSheetRows, DATE_ROW)
    /\ Len(config.borrowing_sheet.measures) = 54
    /\ Len(config.redemption_sheet.measures) = 54

\* ---- derived redemption descriptions ----
BorrowingPrefix == <<"Gross", " ", "Borrowing", " ", "Requirement", ":">>

RedemptionPrefix == <<"Redemption", " ", "Payments", ":">>

StartsWith(t, p) == Len(t) >= Len(p) /\ SubSeq(t, 1, Len(p)) = p

\* the text without the prefix p, the text itself if it has none
WithoutPrefix(t, p) == IF StartsWith(t, p) THEN SubSeq(t, Len(p) + 1, Len(t)) ELSE t

\* number of places of t where p occurs
Occurrences(t, p) ==
    Cardinality({i \in 1..(Len(t) - Len(p) + 1) : SubSeq(t, i, i + Len(p) - 1) = p})

\* C29: the description of each redemption entry is the prefix
\* "Redemption Payments:" followed by the description of the borrowing
\* measure at the same position without its prefix
\* "Gross Borrowing Requirement:", and the prefix occurs in it once.
C29_RedemptionDescriptions ==
    ConfigMade =>
        \A i \in 1..Len(config.redemption_sheet.measures) :
            LET derived == config.redemption_sheet.measures[i].description
                original == config.borrowing_sheet.measures[i].description
            IN  /\ derived = RedemptionPrefix \o WithoutPrefix(original, BorrowingPrefix)
                /\ Occurrences(derived, RedemptionPrefix) = 1

\* ---- downloader ----
\* C30: the candidates are tried in non-increasing order of relevance score
\* and no two tried candidates share a url key; the call returns the path of
\* the first candidate that yields a file and tries none after it, and it
\* returns None when no candidate was found or every attempt failed.
C30_AttemptOrder ==
    /\ \A i, j \in 1..Len(tried) :
          i < j =>
             /\ tried[i].relevance_score >= tried[j].relevance_score
             /\ UrlKey(tried[i]) # UrlKey(tried[j])
    /\ \A i \in 1..(Len(tried) - 1) : ~tried[i].yields
    /\ dpc = "returned" =>
          /\ (\E i \in 1..Len(tried) : tried[i].yields) =>
                download_result = FilePath(tried[Len(tried)])
          /\ (\A i \in 1..Len(tried) : ~tried[i].yields) =>
                /\ download_result = None
                /\ {UrlKey(tried[i]) : i \in 1..Len(tried)}
                      = {UrlKey(buttons[i]) : i \in 1..Len(buttons)}
    /\ dpc = "failed" => (download_result = None /\ tried = <<>>)

\* a file was returned at the second attempt, for a page that listed a
\* candidate twice and a better-scored candidate after a worse one
C30_Witness ==
    /\ dpc = "returned"
    /\ Len(tried) = 2
    /\ download_result = FilePath(tried[2])
    /\ Len(buttons) = 3
    /\ Len(download_buttons) = 2
    /\ buttons[1].relevance_score < buttons[Len(buttons)].relevance_score

====
